---- MODULE Spec2Model ----
(***************************************************************************)
(* A model of FiScrape_Core.py: Scraper.scrape (the batch scheduler), the   *)
(* four worker pipelines it dispatches (fundamentals, profile, holders,     *)
(* insider transactions), the manager-backed shared dictionary with its     *)
(* lock, and the merge of each stage into Scraper.ticker_instances; the     *)
(* static methods of Analyzer, Analyzer.analyze and Exporter.export_to_csv. *)
(*                                                                         *)
(* Spec is scrape() with its workers, SpecFair the same with every process  *)
(* that can run eventually running, SpecCalls the calls of the static      *)
(* methods of Analyzer, SpecAnalyze a run of analyze() on what scrape()    *)
(* returned, SpecExport a series of analyses and exports to one file.      *)
(*                                                                         *)
(* Tickers are modelled as the integers 1..MaxTickers; a scraped value is   *)
(* modelled by the name of the ticker it was scraped for, None by "None".   *)
(* A worker process is identified by the position of its ticker in the      *)
(* ticker list of the run.                                                  *)
(***************************************************************************)
EXTENDS Integers, Sequences, FiniteSets, TLC

VARIABLES
    retries,           \* Scraper.retries
    cpu_count,         \* multiprocessing.cpu_count()
    capacity,          \* max_processes_capacity, in percent
    tickers,           \* ticker_string.split()
    target,            \* the target argument of scrape()
    schedPc,           \* position of scrape(): start, stage, batch, join, done, crashed
    stageIdx,          \* index in StageOrder of the stage scrape() is at
    max_processes,     \* the local max_processes of scrape()
    i,                 \* the loop variable i of the batch loop (an offset in tickers)
    processes,         \* the positions of the processes in the list `processes`
    proc,              \* position -> state of the worker process of the current stage
    shared_dict,       \* manager.dict(): ticker -> record
    lock,              \* manager.Lock(): 0 when free, else the position of its holder
    ticker_instances,  \* Scraper.ticker_instances: ticker -> attributes of the Ticker
    batchLog,          \* history: the batches of the current stage, in dispatch order
    started,           \* history: stage index -> number of processes started for it
    faults,            \* history: failed or wrong page loads and exceptions of the workers so far
    call,              \* the last call of a static method: <<name, arguments>>
    ret,               \* what that call returned or raised
    period,            \* Analyzer.period
    analyzer_pc,       \* position of analyze(): start, a stage name, done
    analyzer_idx,      \* tickers of the current loop of analyze() already handled
    analyzer_instances,\* Analyzer.ticker_instances: ticker -> attributes of the Ticker
    mode,              \* the mode argument of export_to_csv()
    csv_file           \* the file at filepath: whether it exists, and its rows by ticker

\* The variables of the Analyzer and of the Exporter.
avars == <<call, ret, period, analyzer_pc, analyzer_idx, analyzer_instances,
           mode, csv_file>>

\* The variables of scrape() and its workers.
svars == <<retries, cpu_count, capacity, tickers, target, schedPc, stageIdx,
           max_processes, i, processes, proc, shared_dict, lock, ticker_instances,
           batchLog, started, faults>>

vars == <<svars, avars>>

(***************************************************************************)
(* Bounds of the model.                                                    *)
(***************************************************************************)
MaxRetries == 2        \* retries ranges over 1..MaxRetries
MaxTickers == 3        \* the ticker list holds at most MaxTickers tickers
MaxCpu == 2            \* cpu_count ranges over 1..MaxCpu
MaxFaults == 2         \* failed or wrong page loads, failed clicks and worker exceptions in one run
MaxClickRetries == 2   \* Scraper.max_click_retries

Min(a, b) == IF a <= b THEN a ELSE b

Max(a, b) == IF a >= b THEN a ELSE b

Keys == 1 .. MaxTickers

None == "None"

\* The value scraped for ticker k (also the ticker symbol itself).
Data(k) == ToString(k)

EmptyDict == [x \in {} |-> None]

----------------------------------------------------------------------------
(***************************************************************************)
(* Inputs of a run.                                                        *)
(***************************************************************************)
DistinctList(n) == [p \in 1 .. n |-> p]

\* A ticker string that names the same ticker twice.
DupList == <<1, 1>>

TickerLists == {DistinctList(n) : n \in 0 .. MaxTickers} \cup {DupList}

\* The values of max_processes_capacity: half of the cores, all of them.
Capacities == {50, 100}

Targets == {"fundamentals", "profile", "holders", "insider transactions", "all"}

StageOrder == <<"fundamentals", "profile", "holders", "insider transactions">>

\* any(x in target.lower() for x in [stage, 'all'])
Selected(stage, tgt) == tgt \in {stage, "all"}

\* The side tabs the site offers for a ticker: an ordinary stock has both, a
\* fund may lack the financial statements, an index lacks both.
SiteTabs(k) ==
    CASE k % 4 = 1 -> {"Statistics", "Financials"}
      [] k % 4 = 2 -> {"Statistics"}
      [] k % 4 = 3 -> {}
      [] OTHER -> {"Financials"}

----------------------------------------------------------------------------
(***************************************************************************)
(* Ticker: the pages of a ticker and its attributes.                       *)
(***************************************************************************)
\* The financial statement links listed with the balance sheet first.
fs_linkBalanceFirst == <<"balance-sheet", "financials", "cash-flow">>

\* Ticker.fs_link: the documents of the financial statement pages, in order.
fs_link == <<"financials", "balance-sheet", "cash-flow">>

\* The pages Scraper.fundamentals loads, in the order of its code.
PageSeq == <<"summary", "statistics">> \o fs_link

Placeholders == {"--", "-- ", "---"}

\* Ticker.set_attr: a None or placeholder value is stored as None.
set_attr(attrs, kwargs) ==
    [a \in DOMAIN attrs \cup DOMAIN kwargs |->
        IF a \in DOMAIN kwargs
        THEN IF kwargs[a] = None \/ (\E x \in Placeholders : kwargs[a] = x)
             THEN None ELSE kwargs[a]
        ELSE attrs[a]]

\* Ticker(ticker=ticker): an instance with no scraped attribute yet.
NewTicker(k) == [a \in {"ticker"} |-> Data(k)]

\* dict.get: the value of the field, None when the record has no such field.
DictGet(rec, f) == IF f \in DOMAIN rec THEN rec[f] ELSE None

----------------------------------------------------------------------------
(***************************************************************************)
(* The records the workers publish and the fields scrape() merges.         *)
(***************************************************************************)
StatisticsFields == {"df_statistics_valuations", "df_statistics_highlights"}

FinancialsFields == {"df_income_statement", "df_balance_sheet", "df_cash_flow"}

FundamentalsFields ==
    {"name", "price", "change_intraday", "change_afterhours", "df_summary"}
        \cup StatisticsFields \cup FinancialsFields

ProfileFields == {"sector", "industry", "employees", "df_key_executives"}

HoldersFields == {"insider_shares_hold", "institution_shares_hold",
                  "institution_float_hold", "num_institution_holding_shares"}

InsiderFields == {"df_insider_transactions"}

\* The keyword arguments of the set_attr call of a stage's merge loop.
MergeFields(stage) ==
    CASE stage = "fundamentals" -> FundamentalsFields
      [] stage = "profile" -> ProfileFields
      [] stage = "holders" -> HoldersFields
      [] OTHER -> InsiderFields

\* The dictionary a worker of the stage assigns to shared_dict[ticker]; tabs are
\* the side tabs the fundamentals worker saw on the statistics page.
StageRecord(stage, k, tabs) ==
    [f \in {"ticker"} \cup MergeFields(stage) |->
        IF stage = "fundamentals" /\ f \in StatisticsFields /\ "Statistics" \notin tabs
        THEN None
        ELSE IF stage = "fundamentals" /\ f \in FinancialsFields /\ "Financials" \notin tabs
        THEN None
        ELSE Data(k)]

\* shared_dict[ticker] = {...}: the assignment lost every other ticker's record.
PublishRecordLost(d, k, rec) == [x \in {k} |-> rec]

\* shared_dict[ticker] = {...}
PublishRecord(d, k, rec) == [x \in DOMAIN d \cup {k} |-> IF x = k THEN rec ELSE d[x]]

\* The merge loop of a stage: for ticker in tickers: if ticker in shared_dict ...
MergeStage(ti, sd, ks, stage) ==
    [k \in DOMAIN ti \cup (ks \cap DOMAIN sd) |->
        IF k \in ks \cap DOMAIN sd
        THEN set_attr(IF k \in DOMAIN ti THEN ti[k] ELSE NewTicker(k),
                      [f \in MergeFields(stage) |-> DictGet(sd[k], f)])
        ELSE ti[k]]

----------------------------------------------------------------------------
(***************************************************************************)
(* The state of one worker process.                                        *)
(*   pc        position in the worker's code                               *)
(*   page      index in PageSeq of the page being loaded (fundamentals)    *)
(*   attempt   completed iterations of the retry loop of that page         *)
(*   driver    the session `driver` refers to: none, clean (live, no check *)
(*             failed on it), failed (live, a check failed on it), quit    *)
(*   live      number of live sessions the worker has created              *)
(*   tabs      side_tab_labels read from the statistics page               *)
(*   cause     why the pipeline failed: none, exhausted, exception         *)
(*   result    none, published                                             *)
(* and, as history of the page loads of the worker:                        *)
(*   loads     calls of load_and_check_version for the current page, of    *)
(*             requests.get in Scraper.request                             *)
(*   reqLog    the pages in the order of their first load                  *)
(*   accepted  the pages whose check returned a document                   *)
(*   staleLoad a load was made on a session on which a check had failed    *)
(*   version   the version of the page Scraper.request returned: none,     *)
(*             correct, wrong                                              *)
(*   clicks    click_retry_count of find_expand_all_button                 *)
(***************************************************************************)
IdleProc ==
    [pc |-> "idle", page |-> 0, attempt |-> 0, driver |-> "none", live |-> 0,
     tabs |-> {}, cause |-> "none", result |-> "none",
     loads |-> 0, reqLog |-> <<>>, accepted |-> {}, staleLoad |-> FALSE,
     version |-> "none", clicks |-> 0]

\* Driver.create_driver(head): a new live session.
create_driver == "clean"

\* The first statement of the target function of a stage's process:
\* fundamentals creates its driver, the other stages go to Scraper.request.
StartProc(stage) ==
    IF stage = "fundamentals"
    THEN [IdleProc EXCEPT !.pc = "load", !.page = 1, !.driver = create_driver, !.live = 1]
    ELSE [IdleProc EXCEPT !.pc = "request"]

\* A terminated process: its locals are gone; its outcome stays, and so do the
\* sessions it left open.
DoneProc(w) ==
    [IdleProc EXCEPT !.pc = "done", !.cause = w.cause, !.result = w.result,
                     !.live = w.live]

Terminated(pos) == proc[pos].pc = "done"

\* for attempt in range(self.retries) ran one iteration too many.
RetriesExhaustedLate(n) == n > retries

\* for attempt in range(self.retries): the loop ends, without break, after the
\* iteration that brings the number of completed iterations to self.retries.
RetriesExhausted(n) == n >= retries

\* The session is left open.
QuitSkipped(w) == w

\* driver.quit(): the session `driver` refers to is closed; quitting a session
\* that is closed already closes nothing.
QuitDriver(w) ==
    [w EXCEPT !.driver = IF w.driver = "none" THEN "none" ELSE "quit",
              !.live = IF w.driver \in {"clean", "failed"} THEN w.live - 1 ELSE w.live]

\* The failed session is kept for the next attempt.
KeepDriver(d) == d

\* driver.quit(); driver = Driver.create_driver(head)
RecreateDriver(d) == create_driver

\* The financial statement pages are left out.
NextPageShort(p, tabs) == IF p = 1 THEN 2 ELSE 0

\* The page after page p of a ticker that offers the side tabs `tabs`; 0 when
\* p was the last page of the ticker.
NextPage(p, tabs) ==
    IF p = 1 THEN 2
    ELSE IF p = 2 THEN (IF "Financials" \in tabs THEN 3 ELSE 0)
    ELSE IF p - 2 < Len(fs_link) THEN p + 1 ELSE 0

----------------------------------------------------------------------------
(***************************************************************************)
(* Scraper.fundamentals                                                    *)
(***************************************************************************)
\* One iteration of a retry loop up to its check: load_and_check_version returns
\* None (wrong version, timeout, any exception), or a document.  The document
\* of the summary or statistics page is parsed, which raises or completes; on
\* that of a financial statement page find_expand_all_button is called first.
LoadAndCheck(pos) ==
    /\ proc[pos].pc = "load"
    /\ \E outcome \in {"none", "soup", "error"} :
        LET w == proc[pos]
            pg == PageSeq[w.page]
            seen == [w EXCEPT !.loads = w.loads + 1,
                              !.reqLog = IF w.loads = 0 THEN Append(w.reqLog, pg)
                                         ELSE w.reqLog,
                              !.staleLoad = w.staleLoad \/ w.driver # "clean"]
            tabs == IF w.page = 2 THEN SiteTabs(tickers[pos]) ELSE w.tabs
            nxt == NextPage(w.page, tabs)
        IN  CASE outcome = "none" ->
                    /\ faults < MaxFaults
                    /\ faults' = faults + 1
                    /\ proc' = [proc EXCEPT ![pos] =
                                   [seen EXCEPT !.pc = "retry", !.driver = "failed"]]
              [] outcome = "error" ->
                    /\ w.page <= 2
                    /\ faults < MaxFaults
                    /\ faults' = faults + 1
                    /\ proc' = [proc EXCEPT ![pos] =
                                   [seen EXCEPT !.pc = "raise", !.cause = "exception",
                                                !.accepted = w.accepted \cup {pg}]]
              [] OTHER ->
                    /\ faults' = faults
                    /\ proc' = [proc EXCEPT ![pos] =
                                   IF w.page > 2
                                   THEN [seen EXCEPT !.pc = "expand", !.clicks = 0,
                                                     !.accepted = w.accepted \cup {pg}]
                                   ELSE IF nxt = 0
                                   THEN [seen EXCEPT !.pc = "lock", !.tabs = tabs,
                                                     !.accepted = w.accepted \cup {pg}]
                                   ELSE [seen EXCEPT !.pc = "load", !.tabs = tabs,
                                                     !.page = nxt, !.attempt = 0,
                                                     !.loads = 0,
                                                     !.accepted = w.accepted \cup {pg}]]
    /\ UNCHANGED <<avars, retries, cpu_count, capacity, tickers, target, schedPc, stageIdx,
                   max_processes, i, processes, shared_dict, lock, ticker_instances,
                   batchLog, started>>

\* while click_retry_count < self.max_click_retries
ClicksExhausted(n) == n >= MaxClickRetries

\* Scraper.find_expand_all_button on an accepted financial statement page, one
\* iteration of its loop at a step: the click fails (a timeout, a WebDriver
\* exception) and is counted, or succeeds.  After the click, or after the last
\* failed one, the statement is parsed, which raises or completes.
Expand(pos) ==
    /\ proc[pos].pc = "expand"
    /\ \E outcome \in {"clicked", "failed", "error"} :
        LET w == proc[pos]
            nxt == NextPage(w.page, w.tabs)
            parsed == IF nxt = 0
                      THEN [w EXCEPT !.pc = "lock", !.clicks = 0]
                      ELSE [w EXCEPT !.pc = "load", !.page = nxt, !.attempt = 0,
                                     !.loads = 0, !.clicks = 0]
        IN  CASE outcome = "failed" ->
                    /\ faults < MaxFaults
                    /\ faults' = faults + 1
                    /\ proc' = [proc EXCEPT ![pos] =
                                   IF ClicksExhausted(w.clicks + 1) THEN parsed
                                   ELSE [w EXCEPT !.clicks = w.clicks + 1]]
              [] outcome = "error" ->
                    /\ faults < MaxFaults
                    /\ faults' = faults + 1
                    /\ proc' = [proc EXCEPT ![pos] =
                                   [w EXCEPT !.pc = "raise", !.cause = "exception"]]
              [] OTHER ->
                    /\ faults' = faults
                    /\ proc' = [proc EXCEPT ![pos] = parsed]
    /\ UNCHANGED <<avars, retries, cpu_count, capacity, tickers, target, schedPc, stageIdx,
                   max_processes, i, processes, shared_dict, lock, ticker_instances,
                   batchLog, started>>

\* The rest of an iteration whose check failed: the session is quit and a new
\* one created, or creating it raises; when that was the last iteration, the
\* else branch raises.
Retry(pos) ==
    /\ proc[pos].pc = "retry"
    /\ \E outcome \in {"created", "error"} :
        LET w == proc[pos]
            q == QuitDriver(w)
            d == RecreateDriver(w.driver)
        IN  IF outcome = "error"
            THEN /\ faults < MaxFaults
                 /\ faults' = faults + 1
                 /\ proc' = [proc EXCEPT ![pos] =
                                [q EXCEPT !.pc = "raise", !.cause = "exception",
                                          !.attempt = w.attempt + 1]]
            ELSE /\ faults' = faults
                 /\ proc' = [proc EXCEPT ![pos] =
                                IF RetriesExhausted(w.attempt + 1)
                                THEN [q EXCEPT !.pc = "raise", !.cause = "exhausted",
                                               !.driver = d, !.live = q.live + 1,
                                               !.attempt = w.attempt + 1]
                                ELSE [q EXCEPT !.pc = "load", !.driver = d,
                                               !.live = q.live + 1,
                                               !.attempt = w.attempt + 1]]
    /\ UNCHANGED <<avars, retries, cpu_count, capacity, tickers, target, schedPc, stageIdx,
                   max_processes, i, processes, shared_dict, lock, ticker_instances,
                   batchLog, started>>

----------------------------------------------------------------------------
(***************************************************************************)
(* Scraper.request, as the profile, holders and insider transactions       *)
(* workers use it, and the extraction that follows it.                     *)
(***************************************************************************)
\* requests.get and raise_for_status of the first iteration, then the
\* extraction: the document of the response is returned and extracted, be it
\* the correct version of the page or a wrong one, or an exception is raised,
\* which the worker's except and finally clauses only log.
Request(pos) ==
    /\ proc[pos].pc = "request"
    /\ \E outcome \in {"soup", "wrong", "error"} :
        CASE outcome = "error" ->
                /\ faults < MaxFaults
                /\ faults' = faults + 1
                /\ proc' = [proc EXCEPT ![pos] =
                               DoneProc([proc[pos] EXCEPT !.cause = "exception"])]
          [] outcome = "wrong" ->
                /\ faults < MaxFaults
                /\ faults' = faults + 1
                /\ proc' = [proc EXCEPT ![pos].pc = "lock", ![pos].loads = 1,
                                        ![pos].version = "wrong"]
          [] OTHER ->
                /\ faults' = faults
                /\ proc' = [proc EXCEPT ![pos].pc = "lock", ![pos].loads = 1,
                                        ![pos].version = "correct"]
    /\ UNCHANGED <<avars, retries, cpu_count, capacity, tickers, target, schedPc, stageIdx,
                   max_processes, i, processes, shared_dict, lock, ticker_instances,
                   batchLog, started>>

----------------------------------------------------------------------------
(***************************************************************************)
(* The update of the shared dictionary, common to the four workers.        *)
(***************************************************************************)
\* An exception inside the with block left the lock held.
HeldOnError(holder) == holder

\* Leaving `with lock:` by an exception releases the lock.
ReleasedOnError(holder) == 0

\* The lock is taken whoever holds it.
LockIgnored(holder) == TRUE

\* lock.acquire() of `with lock:` returns only when no process holds the lock.
LockFree(holder) == holder = 0

\* with lock: entered.
AcquireLock(pos) ==
    /\ proc[pos].pc = "lock"
    /\ LockFree(lock)
    /\ lock' = pos
    /\ proc' = [proc EXCEPT ![pos].pc = "write"]
    /\ UNCHANGED <<avars, retries, cpu_count, capacity, tickers, target, schedPc, stageIdx,
                   max_processes, i, processes, shared_dict, ticker_instances,
                   batchLog, started, faults>>

\* The body of `with lock:` and its exit: the record is built and assigned to
\* shared_dict[ticker], or building it raises (an index into an empty list).
\* The fundamentals worker goes on to its except and finally clauses, which
\* quit its driver; those of the other workers only log.
WriteAndRelease(pos) ==
    /\ proc[pos].pc = "write"
    /\ \E outcome \in {"written", "error"} :
        LET stage == StageOrder[stageIdx]
            w == proc[pos]
        IN  IF outcome = "error"
            THEN /\ faults < MaxFaults
                 /\ faults' = faults + 1
                 /\ lock' = ReleasedOnError(lock)
                 /\ shared_dict' = shared_dict
                 /\ proc' = [proc EXCEPT ![pos] =
                                IF stage = "fundamentals"
                                THEN [w EXCEPT !.pc = "raise", !.cause = "exception"]
                                ELSE DoneProc([w EXCEPT !.cause = "exception"])]
            ELSE /\ faults' = faults
                 /\ lock' = 0
                 /\ shared_dict' = PublishRecord(shared_dict, tickers[pos],
                                       StageRecord(stage, tickers[pos], w.tabs))
                 /\ proc' = [proc EXCEPT ![pos] =
                                IF stage = "fundamentals"
                                THEN [w EXCEPT !.pc = "finally", !.result = "published"]
                                ELSE DoneProc([w EXCEPT !.result = "published"])]
    /\ UNCHANGED <<avars, retries, cpu_count, capacity, tickers, target, schedPc, stageIdx,
                   max_processes, i, processes, ticker_instances,
                   batchLog, started>>

\* Scraper.fundamentals: except Exception (when the pipeline raised), then
\* finally: driver.quit(); the process ends.
Finally(pos) ==
    /\ proc[pos].pc \in {"raise", "finally"}
    /\ proc' = [proc EXCEPT ![pos] = DoneProc(QuitDriver(proc[pos]))]
    /\ UNCHANGED <<avars, retries, cpu_count, capacity, tickers, target, schedPc, stageIdx,
                   max_processes, i, processes, shared_dict, lock, ticker_instances,
                   batchLog, started, faults>>

----------------------------------------------------------------------------
(***************************************************************************)
(* Scraper.scrape                                                          *)
(***************************************************************************)
\* floor(multiprocessing.cpu_count() * max_processes_capacity)
MaxProcesses(cpus, pct) == (cpus * pct) \div 100

\* tickers[i:i + max_processes - 1]: the slice misses its last ticker.
BatchShort(ts, off, mp) == SubSeq(ts, off + 1, Min(off + mp - 1, Len(ts)))

\* tickers[i:i + max_processes]
Batch(ts, off, mp) == SubSeq(ts, off + 1, Min(off + mp, Len(ts)))

\* The join loop returned while a process was still running.
JoinedEarly(ps) == TRUE

\* for process in processes: process.join() returns once every process of the
\* list has terminated.
AllJoined(ps) == \A p \in ps : Terminated(p)

\* The statements of scrape() before the first stage.
Start ==
    /\ schedPc = "start"
    /\ max_processes' = MaxProcesses(cpu_count, capacity)
    /\ shared_dict' = EmptyDict
    /\ lock' = 0
    /\ processes' = {}
    /\ stageIdx' = 1
    /\ schedPc' = "stage"
    /\ UNCHANGED <<avars, retries, cpu_count, capacity, tickers, target, i, proc,
                   ticker_instances, batchLog, started, faults>>

\* The test of a stage's if statement and the entry of its batch loop:
\* range(0, len(tickers), max_processes) raises ValueError for a step of 0.
EnterStage ==
    /\ schedPc = "stage"
    /\ IF stageIdx > Len(StageOrder)
       THEN /\ schedPc' = "done"
            /\ UNCHANGED <<stageIdx, i, proc, batchLog>>
       ELSE IF ~Selected(StageOrder[stageIdx], target)
       THEN /\ stageIdx' = stageIdx + 1
            /\ UNCHANGED <<schedPc, i, proc, batchLog>>
       ELSE IF max_processes = 0
       THEN /\ schedPc' = "crashed"
            /\ UNCHANGED <<stageIdx, i, proc, batchLog>>
       ELSE /\ schedPc' = "batch"
            /\ i' = 0
            /\ proc' = [p \in DOMAIN proc |-> IdleProc]
            /\ batchLog' = <<>>
            /\ UNCHANGED stageIdx
    /\ UNCHANGED <<avars, retries, cpu_count, capacity, tickers, target, max_processes,
                   processes, shared_dict, lock, ticker_instances, started,
                   faults>>

\* One iteration of the batch loop up to its join: a process is created and
\* started for each ticker of the batch.
SpawnBatch ==
    /\ schedPc = "batch"
    /\ i < Len(tickers)
    /\ LET batch == Batch(tickers, i, max_processes)
           ps == {i + j : j \in 1 .. Len(batch)}
       IN  /\ processes' = ps
           /\ proc' = [p \in DOMAIN proc |->
                          IF p \in ps THEN StartProc(StageOrder[stageIdx]) ELSE proc[p]]
           /\ batchLog' = Append(batchLog, batch)
           /\ started' = [started EXCEPT ![stageIdx] = @ + Len(batch)]
    /\ schedPc' = "join"
    /\ UNCHANGED <<avars, retries, cpu_count, capacity, tickers, target, stageIdx,
                   max_processes, i, shared_dict, lock, ticker_instances,
                   faults>>

\* The join loop of a batch, processes = [], and the step of the batch loop.
JoinBatch ==
    /\ schedPc = "join"
    /\ AllJoined(processes)
    /\ processes' = {}
    /\ i' = i + max_processes
    /\ schedPc' = "batch"
    /\ UNCHANGED <<avars, retries, cpu_count, capacity, tickers, target, stageIdx,
                   max_processes, proc, shared_dict, lock, ticker_instances,
                   batchLog, started, faults>>

\* The batch loop was left after its first batch.
LoopOverEarly(off, ts) == off > 0

\* for i in range(0, len(tickers), max_processes) is exhausted.
LoopOver(off, ts) == off >= Len(ts)

\* The batch loop is over: the merge loop of the stage.
Merge ==
    /\ schedPc = "batch"
    /\ LoopOver(i, tickers)
    /\ ticker_instances' = MergeStage(ticker_instances, shared_dict,
                               {tickers[p] : p \in DOMAIN tickers}, StageOrder[stageIdx])
    /\ stageIdx' = stageIdx + 1
    /\ schedPc' = "stage"
    /\ UNCHANGED <<avars, retries, cpu_count, capacity, tickers, target, max_processes, i,
                   processes, proc, shared_dict, lock, batchLog, started,
                   faults>>

----------------------------------------------------------------------------
\* os.path.exists(filepath) is False.
NoFile == [exists |-> FALSE]

\* The file at filepath with the rows to_csv wrote: ticker -> field -> text.
File(rows) == [exists |-> TRUE, rows |-> rows]

\* No Analyzer and no Exporter has been used.
AnalyzerIdle ==
    /\ call = <<>>
    /\ ret = [t |-> "NoneType"]
    /\ period = 1
    /\ analyzer_pc = "start"
    /\ analyzer_idx = 0
    /\ analyzer_instances = EmptyDict
    /\ mode = "write"
    /\ csv_file = NoFile

Init ==
    /\ AnalyzerIdle
    /\ retries \in 1 .. MaxRetries
    /\ cpu_count \in 1 .. MaxCpu
    /\ capacity \in Capacities
    /\ tickers \in TickerLists
    /\ target \in Targets
    /\ schedPc = "start"
    /\ stageIdx = 0
    /\ max_processes = 0
    /\ i = 0
    /\ processes = {}
    /\ proc = [p \in DOMAIN tickers |-> IdleProc]
    /\ shared_dict = EmptyDict
    /\ lock = 0
    /\ ticker_instances = EmptyDict
    /\ batchLog = <<>>
    /\ started = [s \in DOMAIN StageOrder |-> 0]
    /\ faults = 0

Next ==
    \/ Start
    \/ EnterStage
    \/ SpawnBatch
    \/ JoinBatch
    \/ Merge
    \/ \E pos \in DOMAIN tickers : LoadAndCheck(pos)
    \/ \E pos \in DOMAIN tickers : Retry(pos)
    \/ \E pos \in DOMAIN tickers : Expand(pos)
    \/ \E pos \in DOMAIN tickers : Request(pos)
    \/ \E pos \in DOMAIN tickers : AcquireLock(pos)
    \/ \E pos \in DOMAIN tickers : WriteAndRelease(pos)
    \/ \E pos \in DOMAIN tickers : Finally(pos)

Spec == Init /\ [][Next]_vars

\* scrape() and its processes are scheduled: a statement that can be executed
\* is executed, each page load and each click returning or timing out.
SpecFair == Spec /\ WF_vars(Next)

----------------------------------------------------------------------------
(***************************************************************************)
(* The values the Analyzer computes with.  A str is a TLA+ string, of      *)
(* which SubSeq, Len and \o give the characters; a DataFrame is the        *)
(* sequence of its rows, a row the sequence of its cells.  A local         *)
(* variable of the Analyzer holds None, a str, a float or, when the        *)
(* expression assigned to it raised, the exception.  A float is the exact  *)
(* decimal m * 10^e it was parsed or computed as.                          *)
(***************************************************************************)
PyNone == [t |-> "NoneType"]

PyStr(s) == [t |-> "str", s |-> s]

RECURSIVE PyFloat(_, _)
PyFloat(m, e) ==
    IF m = 0 THEN [t |-> "float", m |-> 0, e |-> 0]
    ELSE IF m % 10 = 0 THEN PyFloat(m \div 10, e + 1)
    ELSE [t |-> "float", m |-> m, e |-> e]

Raise(exc) == [t |-> "raise", exc |-> exc]

IsNone(v) == v.t = "NoneType"

IsStr(v) == v.t = "str"

IsFloat(v) == v.t = "float"

IsRaise(v) == v.t = "raise"

\* A cell or attribute value (a str, or None) as a value of a local variable.
Local(x) == IF x = None THEN PyNone ELSE PyStr(x)

RECURSIVE Pow10(_)
Pow10(n) == IF n <= 0 THEN 1 ELSE 10 * Pow10(n - 1)

Abs(n) == IF n < 0 THEN -n ELSE n

Sign(n) == IF n < 0 THEN -1 ELSE IF n > 0 THEN 1 ELSE 0

\* sub in s, for two strs.
Contains(s, sub) ==
    \E j \in 1 .. Len(s) - Len(sub) + 1 : SubSeq(s, j, j + Len(sub) - 1) = sub

\* s.replace(c, ''), for a character c.
RECURSIVE Remove(_, _)
Remove(s, c) ==
    IF Len(s) = 0 THEN ""
    ELSE (IF SubSeq(s, 1, 1) = c THEN "" ELSE SubSeq(s, 1, 1))
             \o Remove(SubSeq(s, 2, Len(s)), c)

\* s.strip(): the blanks at both ends removed.
RECURSIVE Strip(_)
Strip(s) ==
    IF Len(s) = 0 THEN ""
    ELSE IF SubSeq(s, 1, 1) = " " THEN Strip(SubSeq(s, 2, Len(s)))
    ELSE IF SubSeq(s, Len(s), Len(s)) = " " THEN Strip(SubSeq(s, 1, Len(s) - 1))
    ELSE s

Digits == <<"0", "1", "2", "3", "4", "5", "6", "7", "8", "9">>

IsDigit(c) == \E d \in DOMAIN Digits : Digits[d] = c

DigitValue(c) == (CHOOSE d \in DOMAIN Digits : Digits[d] = c) - 1

\* int(s) for a str of digits.
RECURSIVE DigitsValue(_)
DigitsValue(s) ==
    IF Len(s) = 0 THEN 0
    ELSE 10 * DigitsValue(SubSeq(s, 1, Len(s) - 1)) + DigitValue(SubSeq(s, Len(s), Len(s)))

AllDigits(s) == \A j \in 1 .. Len(s) : IsDigit(SubSeq(s, j, j))

\* float(s): an optional sign, then digits with at most one point among them;
\* ValueError for anything else ('N/A', '', '1,000', '12%').
float(s) ==
    LET u == Strip(s)
        signed == Len(u) > 0 /\ SubSeq(u, 1, 1) \in {"-", "+"}
        body == IF signed THEN SubSeq(u, 2, Len(u)) ELSE u
        sgn == IF signed /\ SubSeq(u, 1, 1) = "-" THEN -1 ELSE 1
        points == {j \in 1 .. Len(body) : SubSeq(body, j, j) = "."}
        digits == Remove(body, ".")
    IN  IF Cardinality(points) <= 1 /\ Len(digits) > 0 /\ AllDigits(digits)
        THEN PyFloat(sgn * DigitsValue(digits),
                     IF points = {} THEN 0
                     ELSE -(Len(body) - (CHOOSE j \in points : TRUE)))
        ELSE Raise("ValueError")

----------------------------------------------------------------------------
(***************************************************************************)
(* Arithmetic on floats and their text.                                    *)
(***************************************************************************)
\* Analyzer.round_int, at its default.
round_int == 2

\* a * 10 ** k
Scale(a, k) == PyFloat(a.m, a.e + k)

\* a - b
Minus(a, b) ==
    LET e == Min(a.e, b.e)
    IN  PyFloat(a.m * Pow10(a.e - e) - b.m * Pow10(b.e - e), e)

\* The quotient and the remainder of n * 10 ** k by d, for naturals n and d,
\* by long division.
RECURSIVE LongDivision(_, _, _, _)
LongDivision(q, r, d, k) ==
    IF k <= 0 THEN <<q, r>>
    ELSE LongDivision(10 * q + (10 * r) \div d, (10 * r) % d, d, k - 1)

\* The integer nearest to the quotient qr[1] with remainder qr[2] by d, the
\* even one of two equally near (round()).
Rounded(qr, d) ==
    IF 2 * qr[2] < d THEN qr[1]
    ELSE IF 2 * qr[2] > d THEN qr[1] + 1
    ELSE IF qr[1] % 2 = 0 THEN qr[1] ELSE qr[1] + 1

\* round(a / b * 10 ** pct, nd), counted in units of 10 ** -nd.
Quotient(a, b, pct, nd) ==
    LET k == a.e - b.e + pct + nd
        n == Abs(a.m)
        d == IF k >= 0 THEN Abs(b.m) ELSE Abs(b.m) * Pow10(-k)
    IN  Sign(a.m) * Sign(b.m) * Rounded(LongDivision(n \div d, n % d, d, k), d)

\* The digits of n, at least `width` of them.
RECURSIVE Padded(_, _)
Padded(n, width) ==
    IF Len(ToString(n)) >= width THEN ToString(n) ELSE "0" \o Padded(n, width - 1)

\* The digits after the point of a float's text: no trailing zero but the first.
RECURSIVE Fraction(_)
Fraction(ds) ==
    IF Len(ds) > 1 /\ SubSeq(ds, Len(ds), Len(ds)) = "0"
    THEN Fraction(SubSeq(ds, 1, Len(ds) - 1))
    ELSE ds

\* str(x) for the float x of h units of 10 ** -nd; negative says that x was
\* rounded from a negative number (round(-0.001, 2) is -0.0).
FloatStr(negative, h, nd) ==
    (IF h < 0 \/ (h = 0 /\ negative) THEN "-" ELSE "")
        \o ToString(Abs(h) \div Pow10(nd)) \o "."
        \o (IF nd = 0 THEN "0" ELSE Fraction(Padded(Abs(h) % Pow10(nd), nd)))

\* str(round(a / b * 10 ** pct, nd))
RatioStr(a, b, pct, nd) ==
    FloatStr(Sign(a.m) * Sign(b.m) < 0, Quotient(a, b, pct, nd), nd)

RECURSIVE Zeros(_)
Zeros(n) == IF n <= 0 THEN "" ELSE "0" \o Zeros(n - 1)

\* str(a) for a float a.
FloatRepr(a) ==
    IF a.e >= 0
    THEN ToString(a.m) \o Zeros(a.e) \o ".0"
    ELSE LET ds == Padded(Abs(a.m), 1 - a.e)
         IN  (IF a.m < 0 THEN "-" ELSE "")
                 \o SubSeq(ds, 1, Len(ds) + a.e) \o "."
                 \o SubSeq(ds, Len(ds) + a.e + 1, Len(ds))

\* The value set_attr receives for a local variable: a float is kept as its text.
Stored(v) == IF IsNone(v) THEN None ELSE IF IsStr(v) THEN v.s ELSE FloatRepr(v)

----------------------------------------------------------------------------
(***************************************************************************)
(* The static methods of Analyzer.  An argument that is a local variable   *)
(* holding an exception stands for an argument expression that raised: the *)
(* method is not entered and the exception goes on.                        *)
(***************************************************************************)
\* The cell of a row in the column numbered col (from 0), None when the row is
\* shorter (the DataFrame pads its rows), IndexError past the last column.
Cell(df, row, col) ==
    LET width == CHOOSE w \in {Len(df[r]) : r \in 1 .. Len(df)} :
                     \A r \in 1 .. Len(df) : Len(df[r]) <= w
    IN  IF col + 1 > width THEN Raise("IndexError")
        ELSE IF col + 1 > Len(df[row]) THEN PyNone
        ELSE Local(df[row][col + 1])

\* df_example[df_example[search_column].str.contains(parameter, na=False)]:
\* the rows whose cell in the search column is a str containing the parameter.
MatchingRows(df, parameter, search_column) ==
    {r \in 1 .. Len(df) :
        /\ search_column + 1 <= Len(df[r])
        /\ df[r][search_column + 1] # None
        /\ Contains(df[r][search_column + 1], parameter)}

\* The loop of search_parameter from its k-th parameter on.
RECURSIVE SearchFrom(_, _, _, _, _)
SearchFrom(df, parameters, k, output_column, search_column) ==
    IF k > Len(parameters) THEN PyNone
    ELSE LET rows == MatchingRows(df, parameters[k], search_column)
             first == CHOOSE r \in rows : \A q \in rows : r <= q
             cell == Cell(df, first, output_column)
         IN  IF rows = {}
             THEN SearchFrom(df, parameters, k + 1, output_column, search_column)
             ELSE IF IsRaise(cell) THEN cell
             ELSE IF IsNone(cell) THEN Raise("TypeError")
             ELSE IF ~\E x \in Placeholders : Contains(cell.s, x)
             THEN PyStr(Strip(cell.s))
             ELSE SearchFrom(df, parameters, k + 1, output_column, search_column)

\* Analyzer.search_parameter; parameters is the list (a str argument is made
\* the list of that str first).  None has no attribute `empty`.
search_parameter(df_example, parameters, output_column, search_column) ==
    IF df_example = None THEN Raise("AttributeError")
    ELSE IF Len(df_example) = 0 THEN PyNone
    ELSE SearchFrom(df_example, parameters, 1, output_column, search_column)

\* float(number_string.replace(suffix, '')) * 10 ** power
Unabbreviated(s, suffix, power) ==
    LET f == float(Remove(s, suffix))
    IN  IF IsRaise(f) THEN f ELSE Scale(f, power)

\* Analyzer.abbr_to_number
abbr_to_number(number_string) ==
    IF IsRaise(number_string) THEN number_string
    ELSE IF IsNone(number_string) THEN PyNone
    ELSE IF Contains(number_string.s, "k") THEN Unabbreviated(number_string.s, "k", 3)
    ELSE IF Contains(number_string.s, "M") THEN Unabbreviated(number_string.s, "M", 6)
    ELSE IF Contains(number_string.s, "B") THEN Unabbreviated(number_string.s, "B", 9)
    ELSE IF Contains(number_string.s, "T") THEN Unabbreviated(number_string.s, "T", 12)
    ELSE number_string

\* Analyzer.join_comma
join_comma(comma_number) ==
    IF IsRaise(comma_number) THEN comma_number
    ELSE IF IsNone(comma_number) THEN PyNone
    ELSE IF comma_number.s \in Placeholders THEN PyNone
    ELSE float(Remove(comma_number.s, ","))

\* The sign change indicator is left out.
NoSignChange(current_value, previous_value) == ""

\* sign_change, as the text appended for it: none unless the values have
\* opposite signs.
SignChange(current_value, previous_value) ==
    IF Sign(current_value.m) * Sign(previous_value.m) < 0
    THEN " (" \o (IF current_value.m > 0 THEN "- -> +" ELSE "+ -> -") \o ")"
    ELSE ""

\* The value used in the rate: the absolute value when the signs are opposite.
Magnitude(v, current_value, previous_value) ==
    IF Sign(current_value.m) * Sign(previous_value.m) < 0
    THEN PyFloat(Abs(v.m), v.e) ELSE v

\* round(cagr * 100, 2) of ((current / previous) ** (1 / period)) - 1: the
\* root is not computed, the text names the numbers it is taken of.
CagrStr(c, p, n) ==
    "cagr(" \o FloatRepr(c) \o "/" \o FloatRepr(p) \o "," \o ToString(n) \o ")"

\* Analyzer.calculate_growth_rate
calculate_growth_rate(current_value, previous_value, n) ==
    IF IsNone(current_value) \/ IsNone(previous_value) THEN PyNone
    ELSE IF previous_value.m = 0 THEN PyNone
    ELSE LET c == Magnitude(current_value, current_value, previous_value)
             p == Magnitude(previous_value, current_value, previous_value)
             growth_rate == IF n > 1 THEN CagrStr(c, p, n)
                            ELSE RatioStr(Minus(c, p), p, 2, 2)
         IN  PyStr(growth_rate \o "%" \o SignChange(current_value, previous_value))

----------------------------------------------------------------------------
(***************************************************************************)
(* Calls of the static methods of Analyzer on arguments of their domains.  *)
(***************************************************************************)
MaxPeriod == 3         \* period ranges over 1..MaxPeriod

\* DataFrames given to search_parameter: none, an empty one, a summary table,
\* a table of key executives with a placeholder in its first matching row.
Frames ==
    <<None,
      <<>>,
      <<<<"Market Cap (intraday)", "2.5T">>, <<"PE Ratio (TTM)", "--">>,
        <<"EPS (TTM)", " 6.13 ">>, <<"Net Assets", "N/A">>,
        <<"Forward Dividend & Yield", "---">>>>,
      <<<<"CEO & Director", "--", "1.5M">>, <<"Chief Financial Officer", "2001", "N/A">>,
        <<"Chairman", "1960">>>>>>

ParameterLists ==
    {<<"Market Cap">>, <<"PE Ratio">>, <<"EPS">>, <<"Net Assets">>, <<"Yield">>,
     <<"Revenue">>, <<"CEO", "Chief Executing Officer">>,
     <<"CEO", "Chief Financial Officer">>, <<"Chairman">>}

\* Texts given to abbr_to_number and join_comma.
NumberStrings ==
    {"12k", "1.5M", "3.5B", "2.5T", "-4.2B", "950", "0", "0.00", "1,200.01",
     "45,000", "-7", "N/A", "--", "-- ", "---", "", "12.5%"}

\* Floats given to calculate_growth_rate.
GrowthValues == {PyFloat(v, 0) : v \in {-100, -50, 0, 50, 100}}

SearchParameterCall ==
    /\ \E d \in DOMAIN Frames, ps \in ParameterLists, output_column \in 0 .. 2 :
          /\ call' = <<"search_parameter", Frames[d], ps, output_column>>
          /\ ret' = search_parameter(Frames[d], ps, output_column, 0)
    /\ UNCHANGED <<svars, period, analyzer_pc, analyzer_idx, analyzer_instances,
                   mode, csv_file>>

AbbrToNumberCall ==
    /\ \E number_string \in NumberStrings \cup {None} :
          /\ call' = <<"abbr_to_number", number_string>>
          /\ ret' = abbr_to_number(Local(number_string))
    /\ UNCHANGED <<svars, period, analyzer_pc, analyzer_idx, analyzer_instances,
                   mode, csv_file>>

JoinCommaCall ==
    /\ \E comma_number \in NumberStrings \cup {None} :
          /\ call' = <<"join_comma", comma_number>>
          /\ ret' = join_comma(Local(comma_number))
    /\ UNCHANGED <<svars, period, analyzer_pc, analyzer_idx, analyzer_instances,
                   mode, csv_file>>

CalculateGrowthRateCall ==
    /\ \E current_value, previous_value \in GrowthValues \cup {PyNone},
          n \in 1 .. MaxPeriod :
          /\ call' = <<"calculate_growth_rate", current_value, previous_value, n>>
          /\ ret' = calculate_growth_rate(current_value, previous_value, n)
    /\ UNCHANGED <<svars, period, analyzer_pc, analyzer_idx, analyzer_instances,
                   mode, csv_file>>

\* No scrape() is running.
ScraperIdle ==
    /\ retries = 1
    /\ cpu_count = 1
    /\ capacity = 100
    /\ schedPc = "done"
    /\ stageIdx = 0
    /\ max_processes = 0
    /\ i = 0
    /\ processes = {}
    /\ proc = [p \in DOMAIN tickers |-> IdleProc]
    /\ shared_dict = EmptyDict
    /\ lock = 0
    /\ ticker_instances = EmptyDict
    /\ batchLog = <<>>
    /\ started = [s \in DOMAIN StageOrder |-> 0]
    /\ faults = 0

InitCalls ==
    /\ tickers = <<>>
    /\ target = "fundamentals"
    /\ ScraperIdle
    /\ AnalyzerIdle

NextCalls ==
    \/ SearchParameterCall
    \/ AbbrToNumberCall
    \/ JoinCommaCall
    \/ CalculateGrowthRateCall

SpecCalls == InitCalls /\ [][NextCalls]_vars

----------------------------------------------------------------------------
(***************************************************************************)
(* Notions the properties below are stated with.                           *)
(***************************************************************************)
Positions == DOMAIN tickers

CurrentStage == StageOrder[stageIdx]

Running == {p \in Positions : proc[p].pc \notin {"idle", "done"}}

Published == {p \in Positions : proc[p].result = "published"}

KeysDistinct == \A p, q \in Positions : tickers[p] = tickers[q] => p = q

\* The positions of the processes of the batch dispatched last.
LastBatch ==
    IF batchLog = <<>> THEN {}
    ELSE (started[stageIdx] - Len(batchLog[Len(batchLog)]) + 1) .. started[stageIdx]

\* The batch loop of the current stage has dispatched its last batch.
DispatchOver == schedPc = "batch" /\ i >= Len(tickers)

RECURSIVE Flatten(_)
Flatten(log) == IF log = <<>> THEN <<>> ELSE log[1] \o Flatten(Tail(log))

IsPrefix(s, t) == Len(s) <= Len(t) /\ s = SubSeq(t, 1, Len(s))

----------------------------------------------------------------------------
(***************************************************************************)
(* C1. A retry loop of Scraper.fundamentals whose check fails on every     *)
(* attempt makes exactly `retries` loads of its page and then raises: no   *)
(* page is ever loaded more than `retries` times, a load is only attempted *)
(* after fewer than `retries` loads of the page, and a worker that raised  *)
(* for exhaustion has loaded the page exactly `retries` times without the  *)
(* page being accepted.                                                    *)
(***************************************************************************)
C1_RetryTermination ==
    \A p \in Positions :
        /\ proc[p].loads <= retries
        /\ proc[p].pc = "load" => proc[p].loads < retries
        /\ proc[p].pc = "retry" => proc[p].loads = proc[p].attempt + 1
        /\ (proc[p].pc = "raise" /\ proc[p].cause = "exhausted") =>
              /\ proc[p].loads = retries
              /\ PageSeq[proc[p].page] \notin proc[p].accepted

C1_Witness ==
    \E p \in Positions :
        /\ proc[p].pc = "raise"
        /\ proc[p].cause = "exhausted"
        /\ proc[p].loads = retries
        /\ retries = MaxRetries

C3_BatchBarrier ==
    /\ schedPc # "join" => Running = {}
    /\ schedPc = "join" =>
          /\ Running \subseteq LastBatch
          /\ \A p \in Positions :
                (proc[p].pc # "idle" /\ p \notin LastBatch) => Terminated(p)

C3_Witness ==
    /\ schedPc = "join"
    /\ Len(batchLog) = 2
    /\ Running # {}
    /\ \E p \in Positions : Terminated(p) /\ proc[p].cause # "none"

(***************************************************************************)
(* C4. The batches of a stage are consecutive slices of the ticker list,   *)
(* each of max_processes tickers except that the last holds the rest: the  *)
(* batches dispatched so far, concatenated, are the beginning of the list, *)
(* every batch but the last has exactly max_processes tickers, no batch is *)
(* empty or larger, one process is started per ticker of a batch, and once *)
(* the batch loop is over the concatenation is the whole list.             *)
(***************************************************************************)
C4_ConsecutiveBatches ==
    schedPc \in {"batch", "join"} =>
        /\ IsPrefix(Flatten(batchLog), tickers)
        /\ \A b \in DOMAIN batchLog :
              /\ Len(batchLog[b]) >= 1
              /\ Len(batchLog[b]) <= max_processes
              /\ b < Len(batchLog) => Len(batchLog[b]) = max_processes
        /\ started[stageIdx] = Len(Flatten(batchLog))
        /\ schedPc = "join" => Cardinality(processes) = Len(batchLog[Len(batchLog)])
        /\ DispatchOver => Flatten(batchLog) = tickers

C4_Witness ==
    /\ DispatchOver
    /\ Len(batchLog) = 2
    /\ Len(batchLog[1]) = 2
    /\ Len(batchLog[2]) = 1

(***************************************************************************)
(* C5 (as claimed). scrape() uses max(1, floor(cpu_count * capacity))      *)
(* workers per batch and completes also when the product is below 1.       *)
(***************************************************************************)
C5_AtLeastOneWorker ==
    schedPc # "start" =>
        /\ max_processes = Max(1, (cpu_count * capacity) \div 100)
        /\ schedPc # "crashed"

(***************************************************************************)
(* C6. A failed worker stops nothing else: a run in which a worker failed  *)
(* never crashes and never gets stuck before scrape() returns, every       *)
(* terminated worker that did not fail itself has published its record,   *)
(* and when scrape() returns every selected stage has started one process  *)
(* for every ticker of the list.                                           *)
(***************************************************************************)
C6_FailureIsolation ==
    /\ (\E p \in Positions : proc[p].cause # "none") =>
          /\ schedPc # "crashed"
          /\ schedPc # "done" => ENABLED Next
    /\ \A p \in Positions :
          (Terminated(p) /\ proc[p].cause = "none") =>
              /\ proc[p].result = "published"
              /\ tickers[p] \in DOMAIN shared_dict
    /\ schedPc = "done" =>
          \A s \in DOMAIN StageOrder :
              Selected(StageOrder[s], target) => started[s] = Len(tickers)

C6_Witness ==
    /\ schedPc = "done"
    /\ target = "all"
    /\ Len(tickers) = MaxTickers
    /\ max_processes = 2
    /\ \E p, q \in Positions :
          /\ p # q
          /\ {p, q} \subseteq 1 .. 2
          /\ proc[p].cause = "exception"
          /\ proc[q].result = "published"

(***************************************************************************)
(* C7. Workers of one stage publishing for distinct tickers lose nothing:  *)
(* each ticker whose worker published has in the shared dictionary the     *)
(* complete record of the stage holding only that ticker's values, and in  *)
(* the first stage of a run the dictionary holds exactly one record per    *)
(* worker that published.                                                  *)
(***************************************************************************)
C7_NoLostUpdate ==
    (KeysDistinct /\ schedPc \in {"batch", "join"}) =>
        /\ \A p \in Published :
              /\ tickers[p] \in DOMAIN shared_dict
              /\ DOMAIN shared_dict[tickers[p]] = {"ticker"} \cup MergeFields(CurrentStage)
              /\ shared_dict[tickers[p]]["ticker"] = Data(tickers[p])
              /\ \A f \in DOMAIN shared_dict[tickers[p]] :
                    shared_dict[tickers[p]][f] \in {None, Data(tickers[p])}
        /\ (\A s \in 1 .. stageIdx - 1 : ~Selected(StageOrder[s], target)) =>
              /\ DOMAIN shared_dict = {tickers[p] : p \in Published}
              /\ Cardinality(DOMAIN shared_dict) = Cardinality(Published)

C7_Witness ==
    /\ KeysDistinct
    /\ schedPc = "batch"
    /\ Len(batchLog) = 1
    /\ Cardinality(Published) = 2
    /\ Cardinality(DOMAIN shared_dict) = 2

(***************************************************************************)
(* C8 (as claimed). Publishing merges into the record the ticker already   *)
(* has: with target 'all', once the profile worker of a ticker has         *)
(* published, the fields its fundamentals worker published are still in    *)
(* the ticker's record of the shared dictionary.                           *)
(***************************************************************************)
C8_PublishMerges ==
    (target = "all" /\ schedPc \in {"batch", "join"} /\ CurrentStage = "profile") =>
        \A p \in Published :
            tickers[p] \in DOMAIN ticker_instances =>
                FundamentalsFields \subseteq DOMAIN shared_dict[tickers[p]]

(***************************************************************************)
(* C9 (as claimed). A ticker whose fundamentals worker exhausted the retry *)
(* budget of a page still has a record in the result of scrape().          *)
(***************************************************************************)
C9_PartialRecord ==
    (schedPc = "done" /\ target = "fundamentals") =>
        \A p \in Positions :
            proc[p].cause = "exhausted" => tickers[p] \in DOMAIN ticker_instances

(***************************************************************************)
(* C10. A fundamentals worker requests its pages in the order summary,     *)
(* statistics, income statement, balance sheet, cash flow; it requests a   *)
(* page for the first time only when the page before it was accepted, and  *)
(* at most one of its pages is requested and not yet accepted.             *)
(***************************************************************************)
C10_PageOrder ==
    \A p \in Positions :
        /\ IsPrefix(proc[p].reqLog,
                    <<"summary", "statistics", "financials", "balance-sheet", "cash-flow">>)
        /\ \A j \in 2 .. Len(proc[p].reqLog) : proc[p].reqLog[j - 1] \in proc[p].accepted
        /\ Cardinality({proc[p].reqLog[j] : j \in DOMAIN proc[p].reqLog}
                           \ proc[p].accepted) <= 1

C10_Witness ==
    \E p \in Positions :
        /\ Len(proc[p].reqLog) = 5
        /\ proc[p].pc = "load"
        /\ proc[p].attempt = 1

----------------------------------------------------------------------------
(***************************************************************************)
(* Notions the properties of the Analyzer are stated with.                 *)
(***************************************************************************)
Called(name) == Len(call) > 0 /\ call[1] = name

AbsFloat(v) == PyFloat(Abs(v.m), v.e)

(***************************************************************************)
(* C12. calculate_growth_rate on a current and a previous value of         *)
(* opposite signs returns the rate of their absolute values followed by    *)
(* the marker '+ -> -' when current is negative and '- -> +' when it is    *)
(* positive; when the signs agree the result carries no marker; and        *)
(* (current=-50, previous=100, period=1) yields '-50.0% (+ -> -)'.         *)
(***************************************************************************)
C12_SignTransition ==
    (Called("calculate_growth_rate") /\ IsFloat(call[2]) /\ IsFloat(call[3])
        /\ call[3].m # 0) =>
        LET c == call[2]
            p == call[3]
            opposite == (c.m < 0 /\ p.m > 0) \/ (c.m > 0 /\ p.m < 0)
        IN  /\ IsStr(ret)
            /\ opposite =>
                  ret.s = calculate_growth_rate(AbsFloat(c), AbsFloat(p), call[4]).s
                              \o (IF c.m < 0 THEN " (+ -> -)" ELSE " (- -> +)")
            /\ ~opposite => ~Contains(ret.s, "->")
            /\ (c.m = -50 /\ c.e = 0 /\ p.m = 1 /\ p.e = 2 /\ call[4] = 1) =>
                  ret.s = "-50.0% (+ -> -)"

C12_Witness ==
    /\ Called("calculate_growth_rate")
    /\ call[2] = PyFloat(-50, 0)
    /\ call[3] = PyFloat(100, 0)
    /\ call[4] = 1
    /\ ret = PyStr("-50.0% (+ -> -)")

(***************************************************************************)
(* C15 (as claimed). search_parameter returns None, and raises nothing,    *)
(* when the section given to it is an empty DataFrame and also when it is  *)
(* None, the section never having been retrieved.                          *)
(***************************************************************************)
C15_UnavailableSectionIsAbsent ==
    (Called("search_parameter") /\ (call[2] = None \/ Len(call[2]) = 0)) =>
        ret = PyNone

\* The placeholder tokens the specification names.
PlaceholderTokens == {"N/A", "--", "---"}

\* The rows of the first parameter of the list that matches any row.
RECURSIVE FirstMatch(_, _, _)
FirstMatch(df, parameters, k) ==
    IF k > Len(parameters) THEN {}
    ELSE IF MatchingRows(df, parameters[k], 0) # {}
    THEN MatchingRows(df, parameters[k], 0)
    ELSE FirstMatch(df, parameters, k + 1)

(***************************************************************************)
(* C16 (as claimed). When the output cell of the row search_parameter      *)
(* matches is one of the placeholder tokens 'N/A', '--', '---', the result *)
(* is None, neither the token nor the cell of another row; join_comma      *)
(* returns None for each of these tokens.                                  *)
(***************************************************************************)
C16_PlaceholdersAreAbsent ==
    /\ (Called("search_parameter") /\ call[2] # None /\ Len(call[2]) > 0) =>
          LET rows == FirstMatch(call[2], call[3], 1)
              first == CHOOSE r \in rows : \A q \in rows : r <= q
          IN  (rows # {} /\ call[4] + 1 <= Len(call[2][first])
                  /\ call[2][first][call[4] + 1] \in PlaceholderTokens) =>
                  ret = PyNone
    /\ (Called("join_comma") /\ call[2] \in PlaceholderTokens) => ret = PyNone

----------------------------------------------------------------------------
(***************************************************************************)
(* Analyzer.analyze: the analysis of the fundamentals of one ticker.       *)
(***************************************************************************)
\* Analyzer.search_parameter(df, label, col) with a str for its parameters.
Find(df, label, col) == search_parameter(df, <<label>>, col, 0)

\* bool(v): None, 0.0 and '' are false.
Truthy(v) == (IsFloat(v) /\ v.m # 0) \/ (IsStr(v) /\ v.s # "")

\* v not in [None, 0]
NotNoneOrZero(v) == ~IsNone(v) /\ ~(IsFloat(v) /\ v.m = 0)

\* str(round(a / b * 10 ** pct, nd)) + suffix: TypeError when an operand is a
\* str, ZeroDivisionError when b is 0.0.
Ratio(a, b, pct, nd, suffix) ==
    IF ~IsFloat(a) \/ ~IsFloat(b) THEN Raise("TypeError")
    ELSE IF b.m = 0 THEN Raise("ZeroDivisionError")
    ELSE PyStr(RatioStr(a, b, pct, nd) \o suffix)

\* a - b for two operands of a ratio.
Difference(a, b) == IF IsFloat(a) /\ IsFloat(b) THEN Minus(a, b) ELSE Raise("TypeError")

\* v * 1000
Thousand(v) == IF IsFloat(v) THEN Scale(v, 3) ELSE Raise("TypeError")

\* The first exception among the values, in their order; None when there is none.
RECURSIVE FirstRaise(_)
FirstRaise(vs) ==
    IF vs = <<>> THEN PyNone
    ELSE IF IsRaise(vs[1]) THEN vs[1]
    ELSE FirstRaise(Tail(vs))

\* try: the value of the current period and that of column 5, for a 3-year
\* growth; except IndexError: column 4 instead, for a 2-year growth.
GrowthOperands(df, label, per) ==
    LET current == join_comma(Find(df, label, per))
        previous == join_comma(Find(df, label, 5))
        first == FirstRaise(<<current, previous>>)
    IN  IF IsRaise(first) /\ first.exc = "IndexError"
        THEN [current |-> join_comma(Find(df, label, per)),
              previous |-> join_comma(Find(df, label, 4)),
              years |-> 2]
        ELSE [current |-> current, previous |-> previous, years |-> 3]

\* The growth of a metric from its operands.
Growth(g) ==
    IF ~IsNone(g.current) /\ NotNoneOrZero(g.previous)
    THEN calculate_growth_rate(g.current, g.previous, g.years)
    ELSE PyNone

\* df[2][0].strip(): the third cell of the header row.
HeaderCell(df) ==
    IF df = None THEN Raise("TypeError")
    ELSE IF Len(df) = 0 \/ Len(df[1]) < 3 THEN Raise("KeyError")
    ELSE IF df[1][3] = None THEN Raise("AttributeError")
    ELSE PyStr(Strip(df[1][3]))

\* The attribute of a Ticker; AttributeError when it was never set.
Attribute(attrs, a) == IF a \in DOMAIN attrs THEN attrs[a] ELSE Raise("AttributeError")

\* A DataFrame attribute is None or empty.
Unavailable(df) == df = None \/ Len(df) = 0

\* The outcome of the analysis of one ticker: the keyword arguments of its
\* set_attr call, or the exception that ended analyze().
Kwargs(kw) == [t |-> "kwargs", kw |-> kw]

\* profit_margin == '0.00%'
IsUnresolved(profit_margin) == IsStr(profit_margin) /\ profit_margin.s = "0.00%"


\* The values the detailed branch searches in the DataFrames of the Ticker
\* (1314-1470), in the order of the code.
Searched(ticker_instance, per) ==
    [forward_dividend_and_yield |-> Find(ticker_instance.df_summary, "Forward Dividend & Yield", 1),
     market_cap |-> Find(ticker_instance.df_summary, "Market Cap", 1),
     eps |-> Find(ticker_instance.df_summary, "EPS", 1),
     diluted_eps |-> Find(ticker_instance.df_statistics_highlights, "Diluted EPS", 1),
     price_to_book |-> Find(ticker_instance.df_statistics_valuations, "Price/Book", per),
     price_to_sales |-> Find(ticker_instance.df_statistics_valuations, "Price/Sales", per),
     price_to_earnings |-> Find(ticker_instance.df_statistics_valuations, "Trailing P/E", per),
     current_ratio |-> Find(ticker_instance.df_statistics_highlights, "Current Ratio", 1),
     return_on_assets |-> Find(ticker_instance.df_statistics_highlights, "Return on Assets", 1),
     return_on_equity |-> Find(ticker_instance.df_statistics_highlights, "Return on Equity", 1),
     profit_margin |-> Find(ticker_instance.df_statistics_highlights, "Profit Margin", 1),
     market_cap_float |-> abbr_to_number(Find(ticker_instance.df_summary, "Market Cap", 1)),
     operating_cash_flow |->
         abbr_to_number(Find(ticker_instance.df_statistics_highlights, "Operating Cash Flow", 1)),
     revenue |-> GrowthOperands(ticker_instance.df_income_statement, "Total Revenue", per),
     income |-> GrowthOperands(ticker_instance.df_income_statement, "Operating Income", per),
     net |-> GrowthOperands(ticker_instance.df_income_statement, "Net Income", per),
     diluted |-> GrowthOperands(ticker_instance.df_income_statement, "Diluted EPS", per),
     current_assets |-> join_comma(Find(ticker_instance.df_balance_sheet, "Current Assets", per)),
     current_liabilities |-> join_comma(Find(ticker_instance.df_balance_sheet, "Current Liabilities", per)),
     inventory |-> join_comma(Find(ticker_instance.df_balance_sheet, "Inventory", per)),
     EBIT |-> join_comma(Find(ticker_instance.df_income_statement, "EBIT", per)),
     interest_expense |-> join_comma(Find(ticker_instance.df_income_statement, "Interest Expense", per)),
     total_debt |-> join_comma(Find(ticker_instance.df_balance_sheet, "Total Debt", per)),
     stockholders_equity |->
         join_comma(Find(ticker_instance.df_balance_sheet, "Stockholders' Equity", per)),
     tax_provision |-> join_comma(Find(ticker_instance.df_income_statement, "Tax Provision", per)),
     invested_capital |-> join_comma(Find(ticker_instance.df_balance_sheet, "Invested Capital", per)),
     tangible_book_value |->
         join_comma(Find(ticker_instance.df_balance_sheet, "Tangible Book Value", per)),
     total_assets |-> join_comma(Find(ticker_instance.df_balance_sheet, "Total Assets", per))]

\* The searched values in the order the code searches them.
SearchedValues(s) ==
    <<s.forward_dividend_and_yield, s.market_cap, s.eps, s.diluted_eps, s.price_to_book,
      s.price_to_sales, s.price_to_earnings, s.current_ratio, s.return_on_assets,
      s.return_on_equity, s.profit_margin, s.market_cap_float, s.operating_cash_flow,
      s.revenue.current, s.revenue.previous, s.income.current, s.income.previous,
      s.net.current, s.net.previous, s.diluted.current, s.diluted.previous,
      s.current_assets, s.current_liabilities, s.inventory, s.EBIT, s.interest_expense,
      s.total_debt, s.stockholders_equity, s.tax_provision, s.invested_capital,
      s.tangible_book_value, s.total_assets>>

\* price_to_cash_flow of the statistics (1340-1344).
PriceToCashFlow(market_cap_float, operating_cash_flow) ==
    IF Truthy(market_cap_float) /\ Truthy(operating_cash_flow)
        /\ ~(IsFloat(operating_cash_flow) /\ operating_cash_flow.m = 0)
    THEN Ratio(market_cap_float, operating_cash_flow, 0, round_int, "")
    ELSE PyNone

\* operating_cash_flow, from the cash flow statement when the statistics have
\* none (1530-1532).
OperatingCashFlow(operating_cash_flow, df_cash_flow, per) ==
    IF IsNone(operating_cash_flow)
    THEN join_comma(Find(df_cash_flow, "Operating Cash Flow", per))
    ELSE operating_cash_flow

\* A price ratio: computed from the market capitalisation and a figure of the
\* statements (in thousands) when the statistics have none (1534-1554).
PriceFallback(primary, market_cap_float, figure) ==
    IF IsNone(primary) /\ ~IsNone(market_cap_float) /\ NotNoneOrZero(figure)
    THEN Ratio(market_cap_float, Thousand(figure), 0, 2, "")
    ELSE primary

\* A ratio of two figures of the statements, computed when the statistics have
\* none (1556-1582).
RatioFallback(primary, a, b, pct, suffix) ==
    IF IsNone(primary) /\ ~IsNone(a) /\ NotNoneOrZero(b)
    THEN Ratio(a, b, pct, 2, suffix)
    ELSE primary

\* profit_margin, computed when the statistics report '0.00%' (1585-1588).
ProfitMargin(profit_margin, net_income, total_revenue) ==
    IF IsUnresolved(profit_margin) /\ ~IsNone(net_income) /\ NotNoneOrZero(total_revenue)
    THEN Ratio(net_income, total_revenue, 2, 2, "%")
    ELSE profit_margin

\* The values the detailed branch computes from the searched ones (1340-1588),
\* in the order of the code.
Computed(s, df_statistics_valuations, df_income_statement, df_cash_flow, per) ==
    [price_to_cash_flow_1 |-> PriceToCashFlow(s.market_cap_float, s.operating_cash_flow),
     revenue_growth |-> Growth(s.revenue),
     operating_income_growth |-> Growth(s.income),
     net_income_growth |-> Growth(s.net),
     diluted_eps_growth |-> Growth(s.diluted),
     quick_ratio |->
         IF ~IsNone(s.current_assets) /\ NotNoneOrZero(s.current_liabilities)
             /\ ~IsNone(s.inventory)
         THEN Ratio(Difference(s.current_assets, s.inventory), s.current_liabilities,
                    0, round_int, "")
         ELSE PyNone,
     interest_coverage |->
         IF ~IsNone(s.EBIT) /\ NotNoneOrZero(s.interest_expense)
         THEN Ratio(s.EBIT, s.interest_expense, 0, round_int, "")
         ELSE PyNone,
     debt_to_equity |->
         IF ~IsNone(s.total_debt) /\ NotNoneOrZero(s.stockholders_equity)
         THEN Ratio(s.total_debt, s.stockholders_equity, 0, round_int, "")
         ELSE PyNone,
     return_on_invested_capital |->
         IF ~IsNone(s.EBIT) /\ ~IsNone(s.tax_provision) /\ NotNoneOrZero(s.invested_capital)
         THEN Ratio(Difference(s.EBIT, s.tax_provision), s.invested_capital,
                    2, round_int, "%")
         ELSE PyNone,
     diluted_eps |->
         IF IsNone(s.diluted_eps) THEN Find(df_income_statement, "Diluted EPS", per)
         ELSE s.diluted_eps,
     operating_cash_flow |-> OperatingCashFlow(s.operating_cash_flow, df_cash_flow, per),
     price_to_book |->
         PriceFallback(s.price_to_book, s.market_cap_float, s.tangible_book_value),
     price_to_sales |->
         PriceFallback(s.price_to_sales, s.market_cap_float, s.revenue.current),
     price_to_earnings |->
         PriceFallback(s.price_to_earnings, s.market_cap_float, s.net.current),
     price_to_cash_flow |->
         PriceFallback(PriceToCashFlow(s.market_cap_float, s.operating_cash_flow),
                       s.market_cap_float,
                       OperatingCashFlow(s.operating_cash_flow, df_cash_flow, per)),
     current_ratio |->
         RatioFallback(s.current_ratio, s.current_assets, s.current_liabilities, 0, ""),
     return_on_assets |->
         RatioFallback(s.return_on_assets, s.net.current, s.total_assets, 2, "%"),
     return_on_equity |->
         RatioFallback(s.return_on_equity, s.net.current, s.stockholders_equity, 2, "%"),
     profit_margin |-> ProfitMargin(s.profit_margin, s.net.current, s.revenue.current),
     latest_10Q |-> HeaderCell(df_statistics_valuations),
     latest_10K |-> HeaderCell(df_income_statement)]

\* The computed values in the order the code computes them.
ComputedValues(c) ==
    <<c.price_to_cash_flow_1, c.revenue_growth, c.operating_income_growth,
      c.net_income_growth, c.diluted_eps_growth, c.quick_ratio, c.interest_coverage,
      c.debt_to_equity, c.return_on_invested_capital, c.diluted_eps,
      c.operating_cash_flow, c.price_to_book, c.price_to_sales, c.price_to_earnings,
      c.price_to_cash_flow, c.current_ratio, c.return_on_assets, c.return_on_equity,
      c.profit_margin, c.latest_10Q, c.latest_10K>>

\* The first exception of the detailed branch, else the keyword arguments of its
\* set_attr call (1590-1632).
DetailedOutcome(s, c, per) ==
    IF IsRaise(FirstRaise(SearchedValues(s))) THEN FirstRaise(SearchedValues(s))
    ELSE IF IsRaise(FirstRaise(ComputedValues(c))) THEN FirstRaise(ComputedValues(c))
    ELSE Kwargs(
        [summary_availability |-> "",
         fs_availability |-> "",
         latest_10Q |-> Stored(c.latest_10Q),
         latest_10K |-> Stored(c.latest_10K),
         forward_dividend_and_yield |-> Stored(s.forward_dividend_and_yield),
         market_cap |-> Stored(s.market_cap),
         eps |-> Stored(s.eps),
         diluted_eps |-> Stored(c.diluted_eps),
         price_to_book |-> Stored(c.price_to_book),
         price_to_sales |-> Stored(c.price_to_sales),
         price_to_earnings |-> Stored(c.price_to_earnings),
         price_to_cash_flow |-> Stored(c.price_to_cash_flow),
         revenue_growth |-> Stored(c.revenue_growth),
         operating_income_growth |-> Stored(c.operating_income_growth),
         net_income_growth |-> Stored(c.net_income_growth),
         diluted_eps_growth |-> Stored(c.diluted_eps_growth),
         quick_ratio |-> Stored(c.quick_ratio),
         current_ratio |-> Stored(c.current_ratio),
         interest_coverage |-> Stored(c.interest_coverage),
         debt_to_equity |-> Stored(c.debt_to_equity),
         return_on_assets |-> Stored(c.return_on_assets),
         return_on_equity |-> Stored(c.return_on_equity),
         return_on_invested_capital |-> Stored(c.return_on_invested_capital),
         profit_margin |-> Stored(c.profit_margin),
         operating_cash_flow |-> Stored(c.operating_cash_flow),
         market_cap_float |-> Stored(s.market_cap_float),
         tangible_book_value |-> Stored(s.tangible_book_value),
         total_assets |-> Stored(s.total_assets),
         calculation_mode |-> IF per = 2 THEN "10K" ELSE "TTM"])

\* The values computed from given searched ones, then the outcome.
DetailedComputation(s, df_statistics_valuations, df_income_statement, df_cash_flow, per) ==
    DetailedOutcome(s, Computed(s, df_statistics_valuations, df_income_statement,
                                df_cash_flow, per), per)

\* The branch of a ticker with summary and statistics data (1311-1632).
DetailedAnalysis(ticker_instance, per) ==
    DetailedComputation(Searched(ticker_instance, per),
                        ticker_instance.df_statistics_valuations,
                        ticker_instance.df_income_statement,
                        ticker_instance.df_cash_flow, per)

\* The branch of a ticker with summary data and no statistics data (1286-1308).
SummaryAnalysis(df_summary) ==
    LET forward_dividend_and_yield == Find(df_summary, "Yield", 1)
        net_assets == Find(df_summary, "Net Assets", 1)
        found == Find(df_summary, "PE Ratio", 1)
        price_to_earnings ==
            IF IsRaise(found) /\ found.exc = "IndexError" THEN PyNone ELSE found
        searched == FirstRaise(<<forward_dividend_and_yield, net_assets, price_to_earnings>>)
    IN  IF IsRaise(searched) THEN searched
        ELSE Kwargs(
            [summary_availability |-> "",
             statistics_availability |-> "x",
             fs_availability |-> "x",
             forward_dividend_and_yield |-> Stored(forward_dividend_and_yield),
             net_assets |-> Stored(net_assets),
             price_to_earnings |-> Stored(price_to_earnings)])

\* The body of the fundamentals loop for a ticker that scraper_output holds.
FundamentalsAnalysis(attrs, per) ==
    IF ~(({"df_summary"} \cup StatisticsFields \cup FinancialsFields) \subseteq DOMAIN attrs)
    THEN Raise("AttributeError")
    ELSE IF Unavailable(attrs.df_summary)
    THEN Kwargs([summary_availability |-> "x",
                 statistics_availability |-> "x",
                 fs_availability |-> "x"])
    ELSE IF Unavailable(attrs.df_statistics_valuations)
    THEN SummaryAnalysis(attrs.df_summary)
    ELSE DetailedAnalysis(attrs, per)

Executives == <<"chairman", "director", "ceo", "cfo", "clo", "cmo", "coo", "cso">>

ExecutiveAliases ==
    <<<<"Chairman">>, <<"Director">>, <<"CEO", "Chief Executing Officer">>,
      <<"CFO", "Chief Financial Officer">>, <<"CLO", "Chief Legal Officer">>,
      <<"CMO", "Chief Marketing Officer">>, <<"COO", "Chief Operating Officer">>,
      <<"CSO", "Chief Strategy Officer">>>>

\* The body of the profile loop for a DataFrame of key executives (1650-1705):
\* name, year and salary of each executive, searched in column 1.
ProfileAnalysis(df_key_executives) ==
    LET found == [x \in DOMAIN Executives |->
                     <<search_parameter(df_key_executives, ExecutiveAliases[x], 0, 1),
                       search_parameter(df_key_executives, ExecutiveAliases[x], 4, 1),
                       search_parameter(df_key_executives, ExecutiveAliases[x], 2, 1)>>]
        searched == FirstRaise([x \in 1 .. 3 * Len(Executives) |->
                                   found[((x - 1) % Len(Executives)) + 1]
                                        [((x - 1) \div Len(Executives)) + 1]])
        names == {Executives[x] : x \in DOMAIN Executives}
        Position(name) == CHOOSE x \in DOMAIN Executives : Executives[x] = name
    IN  IF IsRaise(searched) THEN searched
        ELSE Kwargs(
            [a \in names \cup {n \o "_year" : n \in names} \cup {n \o "_salary" : n \in names}
                |-> IF a \in names THEN Stored(found[Position(a)][1])
                    ELSE IF \E n \in names : a = n \o "_year"
                    THEN Stored(found[Position(CHOOSE n \in names : a = n \o "_year")][2])
                    ELSE Stored(found[Position(CHOOSE n \in names : a = n \o "_salary")][3])])

\* The body of the insider transactions loop (1724-1754).
InsiderAnalysis(df_insider_transactions) ==
    LET total_insider_shares_held ==
            Find(df_insider_transactions, "Total Insider Shares Held", 1)
        net_shares_purchased == Find(df_insider_transactions, "Purchases", 1)
        net_shares_sold == Find(df_insider_transactions, "Sales", 1)
        net_shares_change == Find(df_insider_transactions, "Net Shares Purchased", 1)
        net_transactions == Find(df_insider_transactions, "Net Shares Purchased", 2)
        purchase_transactions == Find(df_insider_transactions, "Purchases", 2)
        sell_transactions == Find(df_insider_transactions, "Sales", 2)
        percent_net_shares_change ==
            Find(df_insider_transactions, "% Net Shares Purchased", 1)
        searched == FirstRaise(
            <<total_insider_shares_held, net_shares_purchased, net_shares_sold,
              net_shares_change, net_transactions, purchase_transactions,
              sell_transactions, percent_net_shares_change>>)
    IN  IF IsRaise(searched) THEN searched
        ELSE Kwargs(
            [net_shares_purchased |-> Stored(net_shares_purchased),
             purchase_transactions |-> Stored(purchase_transactions),
             net_shares_sold |-> Stored(net_shares_sold),
             sell_transactions |-> Stored(sell_transactions),
             net_shares_change |-> Stored(net_shares_change),
             net_transactions |-> Stored(net_transactions),
             total_insider_shares_held |-> Stored(total_insider_shares_held),
             percent_net_shares_change |-> Stored(percent_net_shares_change)])

----------------------------------------------------------------------------
(***************************************************************************)
(* What scrape() returns for the pages the site serves.  The pages of a    *)
(* run differ in the cells the analysis branches on: the market            *)
(* capitalisation, the profit margin, whether the statistics page resolves *)
(* the ratios, the number of columns of the financial statements, and      *)
(* whether the denominators of the balance sheet are zero.                 *)
(***************************************************************************)
Pages ==
    [market_cap : {"2.5T", "N/A"},
     profit_margin : {"25.30%", "0.00%", "--"},
     ratios : {"42.1", "--"},
     columns : {4, 5},
     denominators : {"62,146", "0"}]

df_summary(pg) ==
    <<<<"Market Cap (intraday)", pg.market_cap>>,
      <<"PE Ratio (TTM)", "30.52">>,
      <<"EPS (TTM)", "6.13">>,
      <<"Forward Dividend & Yield", "1.00 (0.44%)">>,
      <<"Net Assets", "N/A">>>>

df_statistics_valuations(pg) ==
    <<<<"", "Current", "6/30/2024", "3/31/2024">>,
      <<"Trailing P/E", pg.ratios, "29.1", "26.4">>,
      <<"Price/Sales", pg.ratios, "7.5", "7.1">>,
      <<"Price/Book", pg.ratios, "38.9", "35.6">>>>

df_statistics_highlights(pg) ==
    <<<<"Profit Margin", pg.profit_margin>>,
      <<"Return on Assets  (ttm)", pg.ratios>>,
      <<"Return on Equity  (ttm)", pg.ratios>>,
      <<"Diluted EPS  (ttm)", pg.ratios>>,
      <<"Current Ratio  (mrq)", pg.ratios>>,
      <<"Operating Cash Flow  (ttm)", IF pg.ratios = "--" THEN "--" ELSE "110.5B">>>>

\* A statement row: its label, then its first `columns` values.
Statement(label, values, columns) == <<label>> \o SubSeq(values, 1, columns)

df_income_statement(pg) ==
    <<Statement("Breakdown",
          <<"TTM", "9/30/2023", "9/30/2022", "9/30/2021", "9/30/2020">>, pg.columns),
      Statement("Total Revenue",
          <<"400,000", "383,285", "394,328", "365,817", "250,000">>, pg.columns),
      Statement("Operating Income",
          <<"120,000", "114,301", "119,437", "-60,000", "66,288">>, pg.columns),
      Statement("Net Income",
          <<"-100,000", "96,995", "99,803", "94,680", "57,411">>, pg.columns),
      Statement("Diluted EPS", <<"6.13", "6.13", "6.11", "5.61", "--">>, pg.columns),
      Statement("EBIT", <<"125,000", "117,669", "122,034", "111,852", "69,964">>, pg.columns),
      Statement("Interest Expense",
          <<"4,000", "3,933", "2,931", "2,645", "2,873">>, pg.columns),
      Statement("Tax Provision",
          <<"25,000", "16,741", "19,300", "14,527", "9,680">>, pg.columns)>>

df_balance_sheet(pg) ==
    <<Statement("Breakdown",
          <<"9/30/2023", "9/30/2022", "9/30/2021", "9/30/2020", "9/30/2019">>, pg.columns),
      Statement("Total Assets",
          <<pg.denominators, "352,755", "351,002", "323,888", "338,516">>, pg.columns),
      Statement("Current Assets",
          <<"143,566", "135,405", "134,836", "143,713", "162,819">>, pg.columns),
      Statement("Current Liabilities",
          <<pg.denominators, "153,982", "125,481", "105,392", "105,718">>, pg.columns),
      Statement("Inventory", <<"6,331", "4,946", "6,580", "4,061", "4,106">>, pg.columns),
      Statement("Total Debt",
          <<"111,088", "120,069", "124,719", "112,436", "108,047">>, pg.columns),
      Statement("Stockholders' Equity",
          <<pg.denominators, "50,672", "63,090", "65,339", "90,488">>, pg.columns),
      Statement("Invested Capital",
          <<pg.denominators, "170,741", "187,809", "177,775", "198,535">>, pg.columns),
      Statement("Tangible Book Value",
          <<pg.denominators, "50,672", "63,090", "65,339", "90,488">>, pg.columns)>>

df_cash_flow(pg) ==
    <<Statement("Breakdown",
          <<"TTM", "9/30/2023", "9/30/2022", "9/30/2021", "9/30/2020">>, pg.columns),
      Statement("Operating Cash Flow",
          <<"110,543", "110,543", "122,151", "104,038", "80,674">>, pg.columns)>>

df_key_executives ==
    <<<<"Mr. A", "CEO & Director", "16.24M", "--", "1961">>,
      <<"Mr. B", "Senior VP & CFO", "4.61M", "N/A", "1972">>,
      <<"Ms. C", "Senior VP, General Counsel & Secretary", "4.62M", "--", "1969">>>>

df_insider_transactions ==
    <<<<"Purchases", "1,000", "2">>,
      <<"Sales", "5,500", "9">>,
      <<"Net Shares Purchased (Sold)", "-4,500", "11">>,
      <<"Total Insider Shares Held", "1.2M", "--">>,
      <<"% Net Shares Purchased (Sold)", "-0.40%", "--">>>>


\* The value scrape() merges for a field of a stage (921-936, 965-971,
\* 1000-1005, 1034-1037): a DataFrame, None for a section whose side tab the
\* ticker lacks, else a scraped text.
ScrapedValue(f, k, pg) ==
    IF f \in StatisticsFields /\ "Statistics" \notin SiteTabs(k) THEN None
    ELSE IF f \in FinancialsFields /\ "Financials" \notin SiteTabs(k) THEN None
    ELSE CASE f = "df_summary" -> df_summary(pg)
           [] f = "df_statistics_valuations" -> df_statistics_valuations(pg)
           [] f = "df_statistics_highlights" -> df_statistics_highlights(pg)
           [] f = "df_income_statement" -> df_income_statement(pg)
           [] f = "df_balance_sheet" -> df_balance_sheet(pg)
           [] f = "df_cash_flow" -> df_cash_flow(pg)
           [] f = "df_key_executives" -> df_key_executives
           [] f = "df_insider_transactions" -> df_insider_transactions
           [] OTHER -> Data(k)

\* The Ticker of k after the merge loops of the first s stages, its workers
\* having published in the stages of `published`. A stage whose worker did not
\* publish finds in shared_dict the record of an earlier stage, if there is
\* one: data.get() is None for each of its fields.
RECURSIVE ScrapedTicker(_, _, _, _)
ScrapedTicker(k, published, pg, s) ==
    IF s = 0 THEN NewTicker(k)
    ELSE IF StageOrder[s] \in published
    THEN set_attr(ScrapedTicker(k, published, pg, s - 1),
                  [f \in MergeFields(StageOrder[s]) |-> ScrapedValue(f, k, pg)])
    ELSE IF \E e \in 1 .. s - 1 : StageOrder[e] \in published
    THEN set_attr(ScrapedTicker(k, published, pg, s - 1),
                  [f \in MergeFields(StageOrder[s]) |-> None])
    ELSE ScrapedTicker(k, published, pg, s - 1)

\* What scrape() returns: a Ticker for every ticker of which a worker published.
ScraperOutput(published, pg) ==
    [k \in {x \in DOMAIN published : published[x] # {}} |->
        ScrapedTicker(k, published[k], pg, Len(StageOrder))]

\* The stages of which the workers of a failing ticker published nothing: all
\* the selected ones, or one of them.
Losses(tgt) ==
    LET selected == {s \in DOMAIN StageOrder : Selected(StageOrder[s], tgt)}
    IN  {{StageOrder[s] : s \in selected}} \cup {{StageOrder[s]} : s \in selected}

----------------------------------------------------------------------------
(***************************************************************************)
(* Analyzer.analyze                                                        *)
(***************************************************************************)
AnalysisOrder == <<"fundamentals", "profile", "holders", "insider transactions">>

\* ticker_instances[ticker].set_attr(**kwargs), the Ticker being the one
\* object both dictionaries hold.
SetAttr(instances, k, kw) ==
    [x \in DOMAIN instances |-> IF x = k THEN set_attr(instances[x], kw) ELSE instances[x]]

\* The statements of analyze() before its first loop.
AnalyzeStart ==
    /\ analyzer_pc = "start"
    /\ analyzer_instances' = ticker_instances
    /\ \E financial_data_period \in {"TTM", "10K"} :
          period' = IF Selected("fundamentals", target)
                    THEN (IF financial_data_period = "10K" THEN 2 ELSE 1)
                    ELSE period
    /\ analyzer_pc' = AnalysisOrder[1]
    /\ analyzer_idx' = 0
    /\ UNCHANGED <<svars, call, ret, mode, csv_file>>

\* analyze() has raised: it stays where it was, in the loop of analyzer_pc at
\* the ticker after the analyzer_idx it handled.
Raised == analyzer_pc # "start" /\ IsRaise(ret)

\* What one iteration of a loop of analyze() does with its outcome: the
\* exception ends analyze(), the keyword arguments are set on the Ticker.
Iteration(k, out) ==
    IF IsRaise(out)
    THEN /\ ret' = out
         /\ UNCHANGED <<analyzer_pc, analyzer_idx, analyzer_instances, ticker_instances>>
    ELSE /\ analyzer_idx' = analyzer_idx + 1
         /\ analyzer_instances' = SetAttr(analyzer_instances, k, out.kw)
         /\ ticker_instances' = SetAttr(ticker_instances, k, out.kw)
         /\ UNCHANGED <<analyzer_pc, ret>>

\* One iteration of the fundamentals loop (1256-1635).
AnalyzeFundamentals ==
    /\ analyzer_pc = "fundamentals"
    /\ ~Raised
    /\ Selected("fundamentals", target)
    /\ analyzer_idx < Len(tickers)
    /\ LET k == tickers[analyzer_idx + 1]
       IN  IF k \notin DOMAIN ticker_instances
           THEN /\ analyzer_idx' = analyzer_idx + 1
                /\ UNCHANGED <<analyzer_pc, ret, analyzer_instances, ticker_instances>>
           ELSE Iteration(k, FundamentalsAnalysis(ticker_instances[k], period))
    /\ UNCHANGED <<retries, cpu_count, capacity, tickers, target, schedPc, stageIdx,
                   max_processes, i, processes, proc, shared_dict, lock, batchLog,
                   started, faults, call, period, mode, csv_file>>

\* scraper_output[ticker].<attribute>: the exception it raises, None when it
\* raises none.
SectionRaise(k, attribute) ==
    IF k \notin DOMAIN ticker_instances THEN Raise("KeyError")
    ELSE IF attribute \notin DOMAIN ticker_instances[k] THEN Raise("AttributeError")
    ELSE PyNone

\* The outcome of an iteration of the profile loop: nothing is set for a
\* DataFrame that is None or empty.
ProfileOutcome(k) ==
    IF IsRaise(SectionRaise(k, "df_key_executives"))
    THEN SectionRaise(k, "df_key_executives")
    ELSE IF Unavailable(ticker_instances[k].df_key_executives) THEN Kwargs(EmptyDict)
    ELSE ProfileAnalysis(ticker_instances[k].df_key_executives)

\* The outcome of an iteration of the insider transactions loop.
InsiderOutcome(k) ==
    IF IsRaise(SectionRaise(k, "df_insider_transactions"))
    THEN SectionRaise(k, "df_insider_transactions")
    ELSE IF Unavailable(ticker_instances[k].df_insider_transactions) THEN Kwargs(EmptyDict)
    ELSE InsiderAnalysis(ticker_instances[k].df_insider_transactions)

\* One iteration of the profile loop (1640-1705).
AnalyzeProfile ==
    /\ analyzer_pc = "profile"
    /\ ~Raised
    /\ Selected("profile", target)
    /\ analyzer_idx < Len(tickers)
    /\ Iteration(tickers[analyzer_idx + 1], ProfileOutcome(tickers[analyzer_idx + 1]))
    /\ UNCHANGED <<retries, cpu_count, capacity, tickers, target, schedPc, stageIdx,
                   max_processes, i, processes, proc, shared_dict, lock, batchLog,
                   started, faults, call, period, mode, csv_file>>

\* One iteration of the insider transactions loop (1714-1754).
AnalyzeInsiderTransactions ==
    /\ analyzer_pc = "insider transactions"
    /\ ~Raised
    /\ Selected("insider transactions", target)
    /\ analyzer_idx < Len(tickers)
    /\ Iteration(tickers[analyzer_idx + 1], InsiderOutcome(tickers[analyzer_idx + 1]))
    /\ UNCHANGED <<retries, cpu_count, capacity, tickers, target, schedPc, stageIdx,
                   max_processes, i, processes, proc, shared_dict, lock, batchLog,
                   started, faults, call, period, mode, csv_file>>

\* The end of a loop, or the if statement of a target that is not selected or
\* only logs (holders): on to the next if statement, or return.
AnalyzeNext ==
    /\ ~Raised
    /\ \E s \in DOMAIN AnalysisOrder :
          /\ analyzer_pc = AnalysisOrder[s]
          /\ \/ ~Selected(AnalysisOrder[s], target)
             \/ AnalysisOrder[s] = "holders"
             \/ analyzer_idx = Len(tickers)
          /\ analyzer_pc' = IF s < Len(AnalysisOrder) THEN AnalysisOrder[s + 1] ELSE "done"
    /\ analyzer_idx' = 0
    /\ UNCHANGED <<svars, call, ret, period, analyzer_instances, mode, csv_file>>

\* scrape() returned: its processes are joined and its stages merged.
ScrapeReturned ==
    /\ retries = 1
    /\ cpu_count = 1
    /\ capacity = 100
    /\ schedPc = "done"
    /\ stageIdx = Len(StageOrder)
    /\ max_processes = 1
    /\ i = 0
    /\ processes = {}
    /\ proc = [p \in DOMAIN tickers |-> IdleProc]
    /\ shared_dict = EmptyDict
    /\ lock = 0
    /\ batchLog = <<>>
    /\ started = [s \in DOMAIN StageOrder |-> 0]
    /\ faults = 0

\* analyze() is given what a scrape() of the same tickers and target returned;
\* the workers of at most one ticker failed.
InitAnalyze ==
    /\ tickers \in TickerLists
    /\ target \in Targets
    /\ ScrapeReturned
    /\ \E pg \in Pages, failing \in 0 .. Len(tickers), lost \in Losses(target) :
          ticker_instances = ScraperOutput(
              [k \in {tickers[p] : p \in DOMAIN tickers} |->
                  {s \in {StageOrder[x] : x \in DOMAIN StageOrder} :
                      /\ Selected(s, target)
                      /\ ~(failing > 0 /\ tickers[failing] = k /\ s \in lost)}],
              pg)
    /\ AnalyzerIdle

NextAnalyze ==
    \/ AnalyzeStart
    \/ AnalyzeFundamentals
    \/ AnalyzeProfile
    \/ AnalyzeInsiderTransactions
    \/ AnalyzeNext

SpecAnalyze == InitAnalyze /\ [][NextAnalyze]_vars


----------------------------------------------------------------------------
(***************************************************************************)
(* Properties of Analyzer.analyze.                                         *)
(***************************************************************************)
\* The tickers whose detailed fundamentals analysis has stored its results.
Analyzed ==
    {k \in DOMAIN analyzer_instances : "profit_margin" \in DOMAIN analyzer_instances[k]}

\* The values analyze() searched in the DataFrames of an analysed ticker.
SearchedOf(k) == Searched(analyzer_instances[k], period)

\* The derived fields that have a fallback.
CascadeFields ==
    {"diluted_eps", "operating_cash_flow", "price_to_book", "price_to_sales",
     "price_to_earnings", "price_to_cash_flow", "current_ratio", "return_on_assets",
     "return_on_equity", "profit_margin"}

\* The value of the highest-priority source of a field with a fallback.
Primary(s, f) ==
    IF f = "price_to_cash_flow"
    THEN PriceToCashFlow(s.market_cap_float, s.operating_cash_flow)
    ELSE s[f]

(***************************************************************************)
(* C11: for every derived field with a fallback, when the highest-priority *)
(* source of an analysed ticker yielded a non-absent value, the value      *)
(* stored in the ticker's record is that value: no later cascade stage     *)
(* changes it.                                                             *)
(***************************************************************************)
C11_PrimaryValueIsKept ==
    \A k \in Analyzed : \A f \in CascadeFields :
        ~IsNone(Primary(SearchedOf(k), f)) =>
            analyzer_instances[k][f] = Stored(Primary(SearchedOf(k), f))


\* The ticker of the iteration analyze() is at.
CurrentTicker == tickers[analyzer_idx + 1]

\* analyze() raised in the detailed branch of the fundamentals of a ticker, after
\* every search of that branch had returned.
RaisedComputing ==
    /\ Raised
    /\ analyzer_pc = "fundamentals"
    /\ ({"df_summary"} \cup StatisticsFields \cup FinancialsFields)
           \subseteq DOMAIN ticker_instances[CurrentTicker]
    /\ ~Unavailable(ticker_instances[CurrentTicker].df_summary)
    /\ ~Unavailable(ticker_instances[CurrentTicker].df_statistics_valuations)
    /\ ~IsRaise(FirstRaise(SearchedValues(
           Searched(ticker_instances[CurrentTicker], period))))

\* v in [None, 0]
NoneOrZero(v) == IsNone(v) \/ (IsFloat(v) /\ v.m = 0)

(***************************************************************************)
(* C13: no ratio or growth computation of analyze() raises, and in the     *)
(* record of an analysed ticker a ratio that has no other source (quick    *)
(* ratio, interest coverage, debt/equity, return on invested capital) and  *)
(* every growth rate is absent when its denominator is 0 or absent or one  *)
(* of its operands is absent.                                              *)
(***************************************************************************)
C13_ComputationsNeverRaise ==
    /\ ~RaisedComputing
    /\ \A k \in Analyzed :
          LET s == SearchedOf(k)
              a == analyzer_instances[k]
          IN  /\ (NoneOrZero(s.current_liabilities) \/ IsNone(s.current_assets)
                     \/ IsNone(s.inventory)) => a.quick_ratio = None
              /\ (NoneOrZero(s.interest_expense) \/ IsNone(s.EBIT)) =>
                     a.interest_coverage = None
              /\ (NoneOrZero(s.stockholders_equity) \/ IsNone(s.total_debt)) =>
                     a.debt_to_equity = None
              /\ (NoneOrZero(s.invested_capital) \/ IsNone(s.EBIT)
                     \/ IsNone(s.tax_provision)) => a.return_on_invested_capital = None
              /\ (NoneOrZero(s.revenue.previous) \/ IsNone(s.revenue.current)) =>
                     a.revenue_growth = None
              /\ (NoneOrZero(s.income.previous) \/ IsNone(s.income.current)) =>
                     a.operating_income_growth = None
              /\ (NoneOrZero(s.net.previous) \/ IsNone(s.net.current)) =>
                     a.net_income_growth = None
              /\ (NoneOrZero(s.diluted.previous) \/ IsNone(s.diluted.current)) =>
                     a.diluted_eps_growth = None

\* The power of ten of a suffix of abbr_to_number.
SuffixPower == [k |-> 3, M |-> 6, B |-> 9, T |-> 12]

(***************************************************************************)
(* C17: abbr_to_number returns the numeric prefix of a text that ends with *)
(* k, M, B or T scaled by 10^3, 10^6, 10^9 or 10^12, None for None, and a   *)
(* text without such a letter as it is; and analyze() does not raise from  *)
(* the market capitalisation or the operating cash flow that               *)
(* abbr_to_number returned as it was.                                      *)
(***************************************************************************)
C17_UnmodifiedValueIsHarmless ==
    /\ Called("abbr_to_number") =>
          IF call[2] = None THEN ret = PyNone
          ELSE IF Len(call[2]) > 0
                  /\ SubSeq(call[2], Len(call[2]), Len(call[2])) \in DOMAIN SuffixPower
                  /\ IsFloat(float(SubSeq(call[2], 1, Len(call[2]) - 1)))
          THEN ret = Scale(float(SubSeq(call[2], 1, Len(call[2]) - 1)),
                           SuffixPower[SubSeq(call[2], Len(call[2]), Len(call[2]))])
          ELSE (\A x \in DOMAIN SuffixPower : ~Contains(call[2], x)) => ret = PyStr(call[2])
    /\ RaisedComputing =>
          ~(\/ IsStr(abbr_to_number(Find(ticker_instances[CurrentTicker].df_summary,
                                         "Market Cap", 1)))
            \/ IsStr(abbr_to_number(Find(
                   ticker_instances[CurrentTicker].df_statistics_highlights,
                   "Operating Cash Flow", 1))))


\* The growth metrics: the field of the record, the row of the income statement
\* and the local variable of analyze() that holds the years of the growth.
GrowthMetrics ==
    {[field |-> "revenue_growth", label |-> "Total Revenue",
      years |-> "total_revenue_period"],
     [field |-> "operating_income_growth", label |-> "Operating Income",
      years |-> "operating_income_period"],
     [field |-> "net_income_growth", label |-> "Net Income",
      years |-> "net_income_period"],
     [field |-> "diluted_eps_growth", label |-> "Diluted EPS",
      years |-> "diluted_eps_period"]}

\* The income statement of the ticker has 4 historical columns: no column 5.
FourColumns(k) ==
    Find(analyzer_instances[k].df_income_statement, "Total Revenue", 5)
        = Raise("IndexError")

\* The growth between column period and column col of a row of the income
\* statement of the ticker, over the years.
GrowthOver(k, label, col, years) ==
    LET current == join_comma(Find(analyzer_instances[k].df_income_statement, label, period))
        previous == join_comma(Find(analyzer_instances[k].df_income_statement, label, col))
    IN  IF IsNone(current) \/ NoneOrZero(previous) THEN None
        ELSE Stored(calculate_growth_rate(current, previous, years))

(***************************************************************************)
(* C14: in the record of an analysed ticker whose income statement has 4   *)
(* historical columns, each growth metric is the growth from column 4 over *)
(* 2 years; and the record of every analysed ticker stores, for each       *)
(* growth metric, the years (3 or 2) it was computed over.                 *)
(***************************************************************************)
C14_OffsetIsRecorded ==
    \A k \in Analyzed : \A g \in GrowthMetrics :
        /\ FourColumns(k) =>
              analyzer_instances[k][g.field] = GrowthOver(k, g.label, 4, 2)
        /\ g.years \in DOMAIN analyzer_instances[k]
        /\ analyzer_instances[k][g.years] = (IF FourColumns(k) THEN "2" ELSE "3")


\* The attributes of a Ticker a loop of analyze() reads.
StageInputs(stage) ==
    CASE stage = "fundamentals" -> {"df_summary"} \cup StatisticsFields \cup FinancialsFields
      [] stage = "profile" -> {"df_key_executives"}
      [] stage = "insider transactions" -> {"df_insider_transactions"}
      [] OTHER -> {}

\* analyze() raised at a ticker that scrape() returned no record of, or a
\* record without the fields of the stage analyze() is at.
RaisedAtFailedTicker ==
    /\ Raised
    /\ \/ CurrentTicker \notin DOMAIN ticker_instances
       \/ ~(StageInputs(analyzer_pc) \subseteq DOMAIN ticker_instances[CurrentTicker])

(***************************************************************************)
(* C20: analyze() does not raise at a ticker of which scrape() returned no *)
(* record, or a record without the fields of a stage; and when it has      *)
(* returned, the fundamentals of every ticker with scraped fundamentals    *)
(* are analysed.                                                           *)
(***************************************************************************)
C20_FailedTickerIsSkipped ==
    /\ ~RaisedAtFailedTicker
    /\ (analyzer_pc = "done" /\ Selected("fundamentals", target)) =>
          \A k \in DOMAIN analyzer_instances :
              "df_summary" \in DOMAIN analyzer_instances[k] =>
                  "summary_availability" \in DOMAIN analyzer_instances[k]


----------------------------------------------------------------------------
(***************************************************************************)
(* Exporter.export_to_csv.  A ticker stands for a symbol such as 'AAPL':    *)
(* read_csv keeps the ticker column as text.                               *)
(***************************************************************************)
\* The keys of ticker_data, the columns of the file.
ExportFields ==
    {"ticker", "price", "name", "change_intraday", "change_afterhours",
     "summary_availability", "fs_availability", "latest_10Q", "latest_10K",
     "forward_dividend_and_yield", "market_cap", "eps", "diluted_eps",
     "price_to_book", "price_to_sales", "price_to_earnings", "price_to_cash_flow",
     "revenue_growth", "operating_income_growth", "net_income_growth",
     "diluted_eps_growth", "quick_ratio", "current_ratio", "interest_coverage",
     "debt_to_equity", "return_on_assets", "return_on_equity",
     "return_on_invested_capital", "profit_margin", "operating_cash_flow",
     "market_cap_float", "tangible_book_value", "total_assets", "calculation_mode",
     "total_insider_shares_held", "net_shares_purchased", "net_shares_sold",
     "net_shares_change", "percent_net_shares_change", "purchase_transactions",
     "sell_transactions", "net_transactions", "insider_shares_hold",
     "institution_shares_hold", "institution_float_hold",
     "num_institution_holding_shares"}
        \cup {Executives[x] : x \in DOMAIN Executives}
        \cup {Executives[x] \o "_year" : x \in DOMAIN Executives}
        \cup {Executives[x] \o "_salary" : x \in DOMAIN Executives}

\* Ticker.get_attr: getattr(self, attribute_name, None)
get_attr(attrs, attribute_name) ==
    IF attribute_name \in DOMAIN attrs THEN attrs[attribute_name] ELSE None

\* data_to_export, by ticker: a row for each ticker of the string that
\* analyzer_instance holds.
data_to_export(ts, analyzer_instance) ==
    [k \in {ts[p] : p \in DOMAIN ts} \cap DOMAIN analyzer_instance |->
        [f \in ExportFields |-> get_attr(analyzer_instance[k], f)]]

\* The text to_csv writes for a value: nothing for None and NaN.
to_csv(value) == IF value = None THEN "" ELSE value

\* The texts read_csv reads as NaN (its default na_values).
NaValues ==
    {"", "#N/A", "#N/A N/A", "#NA", "-1.#IND", "-1.#QNAN", "-NaN", "-nan", "1.#IND",
     "1.#QNAN", "<NA>", "N/A", "NA", "NULL", "NaN", "None", "n/a", "nan", "null"}

\* read_csv infers a column of floats when every cell that is not NaN is a number.
IsNumeric(rows, f) ==
    /\ f # "ticker"
    /\ \E k \in DOMAIN rows : rows[k][f] \notin NaValues
    /\ \A k \in DOMAIN rows : rows[k][f] \notin NaValues => IsFloat(float(rows[k][f]))

\* pd.read_csv(filepath): None for NaN, a float as the text to_csv writes for it.
read_csv(rows) ==
    [k \in DOMAIN rows |->
        [f \in ExportFields |->
            IF rows[k][f] \in NaValues THEN None
            ELSE IF IsNumeric(rows, f) THEN FloatRepr(float(rows[k][f]))
            ELSE rows[k][f]]]

\* df_existing.set_index('ticker').combine_first(df_new_data.set_index('ticker'))
combine_first(df_existing, df_new_data) ==
    [k \in DOMAIN df_existing \cup DOMAIN df_new_data |->
        [f \in ExportFields |->
            IF k \in DOMAIN df_existing /\ df_existing[k][f] # None
            THEN df_existing[k][f]
            ELSE IF k \in DOMAIN df_new_data THEN df_new_data[k][f]
            ELSE None]]

\* df.to_csv(filepath, index=False)
Written(df) == File([k \in DOMAIN df |-> [f \in ExportFields |-> to_csv(df[k][f])]])

\* Exporter.export_to_csv(ticker_string, analyzer_instance, filepath, mode)
ExportToCsv ==
    /\ \E m \in {"write", "append"} :
          /\ mode' = m
          /\ call' = <<"export_to_csv", tickers, m>>
          /\ LET df_new_data == data_to_export(tickers, analyzer_instances)
             IN  IF m = "append" /\ csv_file.exists
                 THEN IF DOMAIN csv_file.rows = {}
                      THEN ret' = Raise("EmptyDataError") /\ csv_file' = csv_file
                      ELSE IF DOMAIN df_new_data = {}
                      THEN ret' = Raise("KeyError") /\ csv_file' = csv_file
                      ELSE /\ ret' = PyNone
                           /\ csv_file' = Written(combine_first(read_csv(csv_file.rows),
                                                                df_new_data))
                 ELSE /\ ret' = PyNone
                      /\ csv_file' = Written(df_new_data)
    /\ UNCHANGED <<svars, period, analyzer_pc, analyzer_idx, analyzer_instances>>

\* The attributes analyze() left on the Ticker of k, in three runs: a detailed
\* analysis, one whose statistics lack the price/book ratio and the profit
\* margin, and a ticker without summary data.
Analyses(k) ==
    {[ticker |-> Data(k), name |-> Data(k), summary_availability |-> "",
      market_cap |-> "2.5T", price_to_book |-> "42.10", profit_margin |-> "25.30%"],
     [ticker |-> Data(k), name |-> Data(k), summary_availability |-> "",
      market_cap |-> "N/A", price_to_book |-> "40227.85", profit_margin |-> None],
     [ticker |-> Data(k), summary_availability |-> "x", price_to_book |-> None]}

\* The dictionaries analyze() returns for the tickers: a Ticker for some of them.
AnalyzerOutputs ==
    UNION {[ks -> UNION {Analyses(k) : k \in ks}] : ks \in SUBSET {tickers[p] : p \in DOMAIN tickers}}

\* Another scrape() and analyze() of the tickers, for the next export.
Reanalyze ==
    /\ \E out \in AnalyzerOutputs :
          /\ \A k \in DOMAIN out : out[k] \in Analyses(k)
          /\ analyzer_instances' = out
    /\ call' = <<"analyze", tickers>>
    /\ ret' = PyNone
    /\ UNCHANGED <<svars, period, analyzer_pc, analyzer_idx, mode, csv_file>>

\* The tickers exported in a run.
MaxExported == 2

InitExport ==
    /\ tickers \in {DistinctList(n) : n \in 0 .. MaxExported}
    /\ target = "fundamentals"
    /\ ScrapeReturned
    /\ ticker_instances = EmptyDict
    /\ AnalyzerIdle

NextExport ==
    \/ Reanalyze
    \/ ExportToCsv

SpecExport == InitExport /\ [][NextExport]_vars


\* The merged rows the append mode is to produce: the value of the new data
\* when that is not None, else the value the file held.
Merged(old, new) ==
    [k \in DOMAIN old \cup DOMAIN new |->
        [f \in ExportFields |->
            IF k \in DOMAIN new /\ new[k][f] # None THEN new[k][f]
            ELSE IF k \in DOMAIN old THEN old[k][f]
            ELSE None]]

(***************************************************************************)
(* C18: an export in append mode onto an existing file keeps every ticker  *)
(* of the file and of the new data, and each field of a ticker holds, as   *)
(* read back from the file, the value of the new data when that is not     *)
(* None, else the value the file held.                                     *)
(***************************************************************************)
C18_NewValueReplaces ==
    [][(call' = <<"export_to_csv", tickers, "append">> /\ csv_file.exists
            /\ ret' = PyNone) =>
          read_csv(csv_file'.rows) =
              read_csv(Written(Merged(read_csv(csv_file.rows),
                                      data_to_export(tickers, analyzer_instances))).rows)]_vars


(***************************************************************************)
(* C19: Scraper.request returns to a profile, holders or insider           *)
(* transactions worker only a document of the correct version of the page: *)
(* no such worker goes on to extract and publish from a wrong version.     *)
(***************************************************************************)
C19_RequestChecksVersion ==
    \A pos \in DOMAIN tickers :
        proc[pos].pc \in {"lock", "write"} => proc[pos].version # "wrong"



----------------------------------------------------------------------------
\* The availability flags of the sections, each with a DataFrame of its section.
SectionFlags ==
    {[flag |-> "summary_availability", df |-> "df_summary"],
     [flag |-> "statistics_availability", df |-> "df_statistics_valuations"],
     [flag |-> "fs_availability", df |-> "df_income_statement"]}

\* The tickers on which the fundamentals loop of analyze() has set its results.
FundamentalsAnalyzed ==
    {k \in DOMAIN analyzer_instances :
        "summary_availability" \in DOMAIN analyzer_instances[k]}

(***************************************************************************)
(* C21: every ticker whose fundamentals analyze() has analysed carries an  *)
(* availability flag for the summary, the statistics and the financial     *)
(* statements, and the flag of a section is 'x' exactly when the section   *)
(* was not retrieved for the ticker.                                       *)
(***************************************************************************)
C21_AvailabilityFlags ==
    \A k \in FundamentalsAnalyzed : \A s \in SectionFlags :
        /\ s.flag \in DOMAIN analyzer_instances[k]
        /\ analyzer_instances[k][s.flag] = "x" <=> Unavailable(analyzer_instances[k][s.df])



----------------------------------------------------------------------------
\* The output cell of the topmost row that the first matching parameter of the
\* last search_parameter call matches.
FirstMatchCell ==
    LET rows == FirstMatch(call[2], call[3], 1)
    IN  Cell(call[2], CHOOSE r \in rows : \A q \in rows : r <= q, call[4])

(***************************************************************************)
(* C22: search_parameter tries its parameters in order and, for the first  *)
(* one that the label cell of some row contains, returns the cell in the   *)
(* output column of the topmost such row (stripped; None when that cell    *)
(* holds a placeholder), never the cell of a row of a later parameter.     *)
(***************************************************************************)
C22_FirstAliasFirstRow ==
    (Called("search_parameter") /\ call[2] # None /\ Len(call[2]) > 0
        /\ FirstMatch(call[2], call[3], 1) # {} /\ IsStr(FirstMatchCell)) =>
        \/ ret = PyStr(Strip(FirstMatchCell.s))
        \/ /\ \E x \in Placeholders \cup PlaceholderTokens : Contains(FirstMatchCell.s, x)
           /\ ret = PyNone



----------------------------------------------------------------------------
\* The workers inside `with lock:`.
InCriticalSection == {p \in Positions : proc[p].pc = "write"}

(***************************************************************************)
(* C23: at most one worker is inside the with-lock block that writes       *)
(* shared_dict, the one lock of the run is held exactly while a worker is  *)
(* inside that block, by that worker: it is released on every exit of the  *)
(* block, so a worker that waits for the lock waits for a worker that can  *)
(* leave the block.                                                        *)
(***************************************************************************)
C23_MutualExclusion ==
    /\ Cardinality(InCriticalSection) <= 1
    /\ lock # 0 => InCriticalSection = {lock}
    /\ lock = 0 => InCriticalSection = {}
    /\ \A p \in Positions : Terminated(p) => lock # p

\* A worker waits for the lock while another worker of its batch is inside the
\* block.
C23_Witness ==
    \E p, q \in Positions :
        /\ p # q
        /\ lock = p
        /\ proc[p].pc = "write"
        /\ proc[q].pc = "lock"



----------------------------------------------------------------------------
\* The step starts a worker process.
WorkerStarts == \E p \in Positions : proc[p].pc = "idle" /\ proc'[p].pc \notin {"idle", "done"}

\* The step leaves a stage that the target selects.
StageLeft ==
    /\ stageIdx \in DOMAIN StageOrder
    /\ stageIdx' # stageIdx
    /\ Selected(StageOrder[stageIdx], target)

\* Every worker of every batch of the current stage was started and has joined.
StageJoined ==
    /\ Flatten(batchLog) = tickers
    /\ \A p \in Positions : Terminated(p)
    /\ processes = {}

(***************************************************************************)
(* C24: scrape() leaves a stage only by the merge loop of the stage, which *)
(* reads shared_dict into the Tickers after every worker of every batch of *)
(* the stage has joined; the Tickers change in no other step; and a worker *)
(* is started only in the batch loop of the stage scrape() is at, so the   *)
(* workers of the next stage start after that merge.                       *)
(***************************************************************************)
C24_MergeAfterJoin ==
    [][/\ StageLeft =>
              /\ StageJoined
              /\ ticker_instances' = MergeStage(ticker_instances, shared_dict,
                                         {tickers[p] : p \in Positions}, StageOrder[stageIdx])
       /\ ticker_instances' # ticker_instances => (StageLeft /\ StageJoined)
       /\ WorkerStarts =>
              /\ schedPc = "batch"
              /\ stageIdx' = stageIdx
              /\ Running = {}
              /\ ticker_instances' = ticker_instances]_vars

\* A worker of the profile stage runs after the merge of the fundamentals of
\* two batches.
C24_Witness ==
    /\ target = "all"
    /\ stageIdx = 2
    /\ Running # {}
    /\ max_processes < Len(tickers)
    /\ \E k \in DOMAIN ticker_instances : "df_summary" \in DOMAIN ticker_instances[k]



(***************************************************************************)
(* C25: no two workers of one stage publish to the same key of             *)
(* shared_dict, whatever the ticker list, one that names a ticker twice    *)
(* included.                                                               *)
(***************************************************************************)
C25_SingleWriterPerKey ==
    \A p, q \in Published : tickers[p] = tickers[q] => p = q



(***************************************************************************)
(* C26: every run of scrape() terminates by returning: each worker ends,   *)
(* each join returns, and scrape() returns after the last stage of its     *)
(* target.                                                                 *)
(***************************************************************************)
C26_ScrapeReturns == <>(schedPc = "done")



----------------------------------------------------------------------------
----------------------------------------------------------------------------
\* The pages Scraper.fundamentals has to load for a ticker: the summary and the
\* statistics of every ticker, the financial statements when the ticker has
\* the Financials tab.
RequiredPages(k) ==
    {"summary", "statistics"} \cup
        (IF "Financials" \in SiteTabs(k) THEN {"financials", "balance-sheet", "cash-flow"}
         ELSE {})

(***************************************************************************)
(* C28: a fundamentals worker assigns shared_dict[ticker] at most once,    *)
(* as its last statement before its finally clause and after every page of *)
(* its ticker was accepted and parsed; the step in which a worker fails    *)
(* leaves shared_dict as it was, and a worker that failed has not          *)
(* published and does not publish.                                         *)
(***************************************************************************)
C28_SingleFinalWrite ==
    [][stageIdx = 1 =>
          /\ \A p \in Positions :
                (shared_dict' # shared_dict \/ proc'[p].result # proc[p].result) =>
                    \E w \in Positions :
                        /\ proc[w].pc = "write"
                        /\ proc[w].result = "none"
                        /\ proc[w].cause = "none"
                        /\ proc[w].accepted = RequiredPages(tickers[w])
                        /\ proc'[w].result = "published"
                        /\ proc'[w].pc = "finally"
                        /\ shared_dict' = PublishRecord(shared_dict, tickers[w],
                                              StageRecord("fundamentals", tickers[w],
                                                          SiteTabs(tickers[w])))
                        /\ \A q \in Positions \ {w} : proc'[q].result = proc[q].result
          /\ \A p \in Positions :
                /\ (proc[p].cause = "none" /\ proc'[p].cause # "none") =>
                       /\ shared_dict' = shared_dict
                       /\ proc'[p].result = "none"
                /\ proc[p].cause # "none" =>
                       /\ proc'[p].cause = proc[p].cause
                       /\ proc'[p].pc \in {"raise", "done"}
                /\ proc[p].result = "published" => proc'[p].pc \in {"finally", "done"}]_vars

\* Of two fundamentals workers one has published the record of a ticker with
\* financial statements, the other has failed, and shared_dict holds the
\* record of the first only.
C28_Witness ==
    /\ stageIdx = 1
    /\ KeysDistinct
    /\ \E p, q \in Positions :
          /\ proc[p].result = "published" /\ Terminated(p)
          /\ "Financials" \in SiteTabs(tickers[p])
          /\ proc[q].cause # "none" /\ Terminated(q)
          /\ DOMAIN shared_dict = {tickers[p]}



(***************************************************************************)
(* C29: the merge loop of a stage leaves the Ticker of a key as it was     *)
(* when no worker of the stage published for the key, also when            *)
(* shared_dict holds the record a worker of an earlier stage published for *)
(* the key.                                                                *)
(***************************************************************************)
C29_MergeOnlyPublished ==
    [][StageLeft =>
          \A k \in {tickers[p] : p \in Positions} :
              (~\E p \in Published : tickers[p] = k) =>
                  /\ k \in DOMAIN ticker_instances' <=> k \in DOMAIN ticker_instances
                  /\ k \in DOMAIN ticker_instances =>
                         ticker_instances'[k] = ticker_instances[k]]_vars



----------------------------------------------------------------------------
\* The value the fallback of a derived field computes for an analysed ticker
\* from the financial statements; None when an operand of the fallback is
\* absent or its denominator is 0.
FallbackValue(k, f) ==
    LET s == SearchedOf(k)
        a == analyzer_instances[k]
    IN  CASE f = "diluted_eps" -> Find(a.df_income_statement, "Diluted EPS", period)
          [] f = "operating_cash_flow" ->
                 join_comma(Find(a.df_cash_flow, "Operating Cash Flow", period))
          [] f = "price_to_book" ->
                 PriceFallback(PyNone, s.market_cap_float, s.tangible_book_value)
          [] f = "price_to_sales" ->
                 PriceFallback(PyNone, s.market_cap_float, s.revenue.current)
          [] f = "price_to_earnings" ->
                 PriceFallback(PyNone, s.market_cap_float, s.net.current)
          [] f = "price_to_cash_flow" ->
                 PriceFallback(PyNone, s.market_cap_float,
                               OperatingCashFlow(s.operating_cash_flow, a.df_cash_flow, period))
          [] f = "current_ratio" ->
                 RatioFallback(PyNone, s.current_assets, s.current_liabilities, 0, "")
          [] f = "return_on_assets" ->
                 RatioFallback(PyNone, s.net.current, s.total_assets, 2, "%")
          [] f = "return_on_equity" ->
                 RatioFallback(PyNone, s.net.current, s.stockholders_equity, 2, "%")
          [] OTHER -> RatioFallback(PyNone, s.net.current, s.revenue.current, 2, "%")

(***************************************************************************)
(* C30: for every derived field with a fallback, profit margin included,   *)
(* when the highest-priority source of an analysed ticker yielded no value *)
(* and the operands of the fallback are present with a denominator that is *)
(* not 0, the ticker's record holds the value of the fallback.             *)
(***************************************************************************)
C30_FallbackApplies ==
    \A k \in Analyzed : \A f \in CascadeFields :
        (IsNone(Primary(SearchedOf(k), f)) /\ ~IsNone(FallbackValue(k, f))) =>
            analyzer_instances[k][f] = Stored(FallbackValue(k, f))

====
